---- MODULE Spec2Model ----
(***************************************************************************)
(* Model of the NossoCRM installer routes.                                 *)
(*                                                                         *)
(*   - run-stream route, src/app/api/installer/run-stream/route.ts         *)
(*     lines 1-387: the POST handler, its gates, and the detached          *)
(*     provisioning task that writes Server-Sent Events to a               *)
(*     TransformStream writer.                                             *)
(*   - delete-project route, same file, lines 389-439.                     *)
(*                                                                         *)
(* Strings that the code trims are sequences of one-character strings, so  *)
(* that String.prototype.trim is an operator that does something.          *)
(* An optional field that is absent is the value Undefined.                *)
(*                                                                         *)
(* Every awaited call of a collaborator (under lib/installer) is two steps: *)
(* the invocation (appended to `calls` with status "pending") and the      *)
(* settlement of its promise, whose outcome is chosen nondeterministically *)
(* among the outcomes the call site distinguishes: a value the code treats *)
(* as success, a value it treats as failure, or a rejection (throw).       *)
(* Writes to the stream are assumed to succeed (the client keeps reading). *)
(***************************************************************************)
EXTENDS Integers, Sequences, FiniteSets, TLC

\* ------------------------------------------------------------------ strings

Whitespace == {" "}

Undefined == <<"undefined">>

RECURSIVE TrimStart(_)
TrimStart(s) ==
  IF s = <<>> THEN s
  ELSE IF Head(s) \in Whitespace THEN TrimStart(Tail(s)) ELSE s

RECURSIVE TrimEnd(_)
TrimEnd(s) ==
  IF s = <<>> THEN s
  ELSE IF s[Len(s)] \in Whitespace THEN TrimEnd(SubSeq(s, 1, Len(s) - 1)) ELSE s

\* String.prototype.trim
Trim(s) == TrimEnd(TrimStart(s))

\* `field?.trim() || ''`
TrimOrEmpty(v) == IF v = Undefined THEN <<>> ELSE Trim(v)

\* ------------------------------------------------- run-stream: request data

Blank == <<" ">>
KeyGiven == <<"k">>
RefFromUrl == <<"u">>
FetchedAnonKey == <<"p", "k">>
FetchedSecretKey == <<"s", "k">>
FetchedDbUrl == <<"d", "b">>

\* z.string().min(1).optional(): absent, whitespace only, or a value
OptionalNonEmpty == {Undefined, Blank, KeyGiven}

\* z.string().optional(): as above (the empty string trims like Blank)
OptionalString == {Undefined, Blank, KeyGiven}

HintFlags == [skipWaitProject : BOOLEAN, skipWaitStorage : BOOLEAN,
              skipMigrations : BOOLEAN, skipBootstrap : BOOLEAN]

NoHint == [absent |-> TRUE]

\* healthCheck: z.object({...}).optional()
HealthChecks == {NoHint} \cup HintFlags

InstallerTokens == {Undefined, <<"t">>, <<"x">>}

\* parsed.data of RunSchema, reduced to the fields the handler branches on.
\* urlRef is what extractProjectRefFromSupabaseUrl(supabase.url) returns
\* (the empty string stands for null).
Requests ==
  [installerToken : InstallerTokens,
   anonKey : OptionalNonEmpty,
   serviceRoleKey : OptionalNonEmpty,
   dbUrl : OptionalNonEmpty,
   accessToken : OptionalString,
   projectRef : OptionalString,
   urlRef : {<<>>, RefFromUrl},
   deployEdgeFunctions : BOOLEAN,
   healthCheck : HealthChecks]

PhaseIds == <<"coordinates", "signal", "station", "comms", "contact", "landing", "complete">>

MsgNoAccessToken == "Token de acesso Supabase não fornecido."
MsgNoProjectRef == "Referência do projeto Supabase não encontrada."
MsgKeysFailed == "Falha ao obter chaves de acesso."
MsgDbFailed == "Falha ao conectar com o banco de dados."
MsgNotReady == "Destino não respondeu a tempo."
MsgSecretsFailed == "Falha ao configurar comunicadores."
MsgBootstrapFailed == "Falha ao estabelecer primeiro contato."
MsgGeneric == "Erro durante a missão."

\* err.message of an exception thrown by the collaborator `fn`
ExceptionMessage(fn) == "internal detail of " \o fn

\* what a collaborator may throw: an Error, or a value that is not an Error
ThrownKinds == {"Error", "NotError"}

VARIABLES
  \* process environment and request (inputs)
  originAllowed,        \* isAllowedOrigin(req)
  installerEnabled,     \* process.env.INSTALLER_ENABLED
  expectedToken,        \* process.env.INSTALLER_TOKEN
  payloadOk,            \* req.json() parsed and RunSchema.safeParse succeeded
  req,                  \* parsed.data
  \* run-stream handler
  response,             \* HTTP status returned by POST; 0 while none was returned
  skippedSteps,         \* the Skip Set, in push order
  pc,                   \* position of the background task
  events,               \* StreamEvents written to the writer, in order
  closeCalls,           \* number of writer.close() invocations
  writerClosed,         \* the writer has been closed
  calls,                \* collaborator invocations, in order, with their status
  resolved,             \* resolvedProjectRef/AccessToken/AnonKey/ServiceRoleKey/DbUrl
  hasLocalEdgeFunctions,
  functions,            \* result of deployAllSupabaseEdgeFunctions
  thrown,               \* the exception travelling to the outer catch
  \* delete-project route
  delReq,               \* body of the delete request (req.json(), or null)
  delResponse,          \* HTTP status returned; 0 while none was returned
  delCalls,             \* arguments of deleteSupabaseProject invocations
  \* list-projects route
  listReq,              \* body of the list request (req.json(), or null)
  listResponse,         \* HTTP status returned; 0 while none was returned
  listCalls,            \* management-API invocations of the list route, in order
  \* concurrent run-stream requests against one project
  runPos,               \* per request: index in RunSteps of its current step
  runAwaiting,          \* per request: the current step's call is in flight
  runOutcome,           \* per request: "none", "complete" or "error"
  target                \* per step: invocations received by the target project

runVars == <<response, skippedSteps, pc, events, closeCalls, writerClosed, calls,
             resolved, hasLocalEdgeFunctions, functions, thrown>>
envVars == <<originAllowed, installerEnabled, expectedToken>>
delVars == <<delReq, delResponse, delCalls>>
listVars == <<listReq, listResponse, listCalls>>
raceVars == <<runPos, runAwaiting, runOutcome, target>>

VARIABLES
  \* Home page
  homePc,               \* position of Home
  homeRpc,              \* what supabase.rpc('is_instance_initialized') gives
  homeCaught,           \* what the catch of Home swallowed
  homeRedirect,         \* the redirect that leaves Home
  \* admin invites route
  invMethod,            \* "GET" or "POST" once a request arrived
  invSession,           \* the user of the session cookie, or "null"
  invProfile,           \* what the profiles query gives for that user
  invBody,              \* req.json() of the POST, or NoInviteBody
  invDbError,           \* the organization_invites statement fails
  invPc,                \* position of the invites handler
  invUser,              \* `user`
  invMe,                \* `me`
  invResponse,          \* HTTP status returned; 0 while none was returned
  invCalls,             \* statements sent to organization_invites, in order
  \* McpSection
  supabaseConfigured,   \* the `supabase` client is not null
  apiKey,
  creatingKey,
  testing,
  connecting,
  testResult,
  showHaveKey,
  toasts,               \* messages handed to addToast
  fetched,              \* requests sent by supabase.rpc and fetch, in order
  handlers,             \* per click: the handler invocation and its closure
  clicks,               \* clicks on Connect and Test handled so far
  \* AIPromptsManager
  editorOpen,
  editing,              \* key of the catalog item being edited, or "null"
  contentDraft,
  editorLoading,
  saving,
  loads,                \* per openEditor call: its item and its GET
  opens,                \* openEditor calls so far
  savePc,               \* position of save
  posted                \* bodies of the POSTs of save, in order

homeVars == <<homePc, homeRpc, homeCaught, homeRedirect>>
inviteVars == <<invMethod, invSession, invProfile, invBody, invDbError, invPc, invUser,
                invMe, invResponse, invCalls>>
mcpVars == <<supabaseConfigured, apiKey, creatingKey, testing, connecting, testResult,
             showHaveKey, toasts, fetched, handlers, clicks>>
promptVars == <<editorOpen, editing, contentDraft, editorLoading, saving, loads, opens,
                savePc, posted>>
appVars == <<homeVars, inviteVars, mcpVars, promptVars>>
installerVars == <<envVars, payloadOk, req, runVars, delVars, listVars, raceVars>>
vars == <<installerVars, appVars>>

\* ------------------------------------------------------- run-stream: helpers

EnvFalse == <<"f", "a", "l", "s", "e">>
EnvTrue == <<"t", "r", "u", "e">>

\* process.env.INSTALLER_ENABLED: unset, 'false', or another string
EnabledValues == {Undefined, EnvFalse, EnvTrue}

\* process.env.INSTALLER_TOKEN: unset, empty, or a token
ExpectedTokens == {Undefined, <<>>, <<"t">>}

\* JavaScript truthiness of a string-or-undefined
Truthy(v) == v # Undefined /\ v # <<>>

\* healthCheck?.flag
Hint(h, flag) == IF h = NoHint THEN FALSE ELSE h[flag]

\* the Skip Set with bootstrap pushed whatever the hint says
SkipSetAlwaysBootstrap(h) ==
  (IF Hint(h, "skipWaitProject") THEN <<"wait_project">> ELSE <<>>) \o
  (IF Hint(h, "skipWaitStorage") THEN <<"wait_storage">> ELSE <<>>) \o
  (IF Hint(h, "skipMigrations") THEN <<"migrations">> ELSE <<>>) \o
  <<"bootstrap">>

\* the Skip Set without the push for skipMigrations
SkipSetWithoutMigrations(h) ==
  (IF Hint(h, "skipWaitProject") THEN <<"wait_project">> ELSE <<>>) \o
  (IF Hint(h, "skipWaitStorage") THEN <<"wait_storage">> ELSE <<>>) \o
  (IF Hint(h, "skipBootstrap") THEN <<"bootstrap">> ELSE <<>>)

\* skippedSteps as pushed at lines 131-135
SkipSet(h) ==
  (IF Hint(h, "skipWaitProject") THEN <<"wait_project">> ELSE <<>>) \o
  (IF Hint(h, "skipWaitStorage") THEN <<"wait_storage">> ELSE <<>>) \o
  (IF Hint(h, "skipMigrations") THEN <<"migrations">> ELSE <<>>) \o
  (IF Hint(h, "skipBootstrap") THEN <<"bootstrap">> ELSE <<>>)

\* Array.prototype.includes
Includes(seq, x) == \E i \in 1..Len(seq) : seq[i] = x

\* the event sendPhase writes (title and subtitle are texts fixed per phase)
PhaseEvent(phase, progress) == [type |-> "phase", phase |-> phase, progress |-> progress]

ErrorEvent(message) == [type |-> "error", error |-> message]

CompleteEvent == [type |-> "complete", ok |-> TRUE]

\* lines 172-180: the values resolved from the request before the first await
ResolvedFromRequest(r) ==
  [projectRef |-> IF Truthy(TrimOrEmpty(r.projectRef)) THEN TrimOrEmpty(r.projectRef)
                  ELSE r.urlRef,
   accessToken |-> TrimOrEmpty(r.accessToken),
   anonKey |-> TrimOrEmpty(r.anonKey),
   serviceRoleKey |-> TrimOrEmpty(r.serviceRoleKey),
   dbUrl |-> TrimOrEmpty(r.dbUrl)]

\* lines 182-183 (constants of the run, computed from the request)
NeedsKeys == ~Truthy(TrimOrEmpty(req.anonKey)) \/ ~Truthy(TrimOrEmpty(req.serviceRoleKey))
NeedsDb == ~Truthy(TrimOrEmpty(req.dbUrl))

\* line 190-191
NeedsManagementApi ==
  NeedsKeys \/ NeedsDb \/ (req.deployEdgeFunctions /\ hasLocalEdgeFunctions)

NoThrow == [kind |-> "none"]

\* a collaborator is invoked: its promise is pending
Invoke(fn) == Append(calls, [fn |-> fn, status |-> "pending"])

\* the pending promise settles
Settled(status) == [calls EXCEPT ![Len(calls)].status = status]

\* what the task never writes after POST returned
fixedVars == <<envVars, payloadOk, req, response, skippedSteps, delVars, listVars, raceVars, appVars>>

\* sendEvent/sendPhase the events `evs`, then continue at `next`
Go(evs, next) ==
  /\ events' = events \o evs
  /\ pc' = next
  /\ UNCHANGED <<closeCalls, writerClosed, thrown>>

\* a handled failure: sendEvent(error); await writer.close(); return
\* (the return leaves the try block, so the finally block runs next)
Fail(message) ==
  /\ events' = Append(events, ErrorEvent(message))
  /\ closeCalls' = closeCalls + 1
  /\ writerClosed' = TRUE
  /\ pc' = "finally"
  /\ UNCHANGED thrown

\* the awaited promise of `fn` rejects: control passes to the outer catch
Throw(fn, kind) ==
  /\ thrown' = [kind |-> kind, message |-> ExceptionMessage(fn)]
  /\ pc' = "catch"
  /\ UNCHANGED <<events, closeCalls, writerClosed>>

\* --------------------------------------------------- run-stream: the handler

\* the handler awaiting the task: nothing is returned while the task runs
PostAwaitsTask ==
  /\ pc = "request"
  /\ UNCHANGED <<envVars, payloadOk, req, delVars, listVars, raceVars, appVars>>
  /\ UNCHANGED <<events, closeCalls, writerClosed, functions, thrown>>
  /\ IF ~originAllowed THEN
       /\ response' = 403 /\ pc' = "not_started"
       /\ UNCHANGED <<skippedSteps, calls, resolved, hasLocalEdgeFunctions>>
     ELSE IF installerEnabled = EnvFalse THEN
       /\ response' = 403 /\ pc' = "not_started"
       /\ UNCHANGED <<skippedSteps, calls, resolved, hasLocalEdgeFunctions>>
     ELSE IF ~payloadOk THEN
       /\ response' = 400 /\ pc' = "not_started"
       /\ UNCHANGED <<skippedSteps, calls, resolved, hasLocalEdgeFunctions>>
     ELSE IF Truthy(expectedToken) /\ req.installerToken # expectedToken THEN
       /\ response' = 403 /\ pc' = "not_started"
       /\ UNCHANGED <<skippedSteps, calls, resolved, hasLocalEdgeFunctions>>
     ELSE
       /\ UNCHANGED response
       /\ skippedSteps' = SkipSet(req.healthCheck)
       /\ resolved' = ResolvedFromRequest(req)
       /\ IF req.deployEdgeFunctions
          THEN /\ calls' = Invoke("listEdgeFunctionSlugs")
               /\ pc' = "listEdgeFunctionSlugs"
               /\ UNCHANGED hasLocalEdgeFunctions
          ELSE /\ hasLocalEdgeFunctions' = FALSE
               /\ pc' = "credentials"
               /\ UNCHANGED calls

\* the handler without the schema check
PostSkipsValidation ==
  /\ pc = "request"
  /\ UNCHANGED <<envVars, payloadOk, req, delVars, listVars, raceVars, appVars>>
  /\ UNCHANGED <<events, closeCalls, writerClosed, functions, thrown>>
  /\ IF ~originAllowed THEN
       /\ response' = 403 /\ pc' = "not_started"
       /\ UNCHANGED <<skippedSteps, calls, resolved, hasLocalEdgeFunctions>>
     ELSE IF installerEnabled = EnvFalse THEN
       /\ response' = 403 /\ pc' = "not_started"
       /\ UNCHANGED <<skippedSteps, calls, resolved, hasLocalEdgeFunctions>>
     ELSE IF Truthy(expectedToken) /\ req.installerToken # expectedToken THEN
       /\ response' = 403 /\ pc' = "not_started"
       /\ UNCHANGED <<skippedSteps, calls, resolved, hasLocalEdgeFunctions>>
     ELSE
       /\ response' = 200
       /\ skippedSteps' = SkipSet(req.healthCheck)
       /\ resolved' = ResolvedFromRequest(req)
       /\ IF req.deployEdgeFunctions
          THEN /\ calls' = Invoke("listEdgeFunctionSlugs")
               /\ pc' = "listEdgeFunctionSlugs"
               /\ UNCHANGED hasLocalEdgeFunctions
          ELSE /\ hasLocalEdgeFunctions' = FALSE
               /\ pc' = "credentials"
               /\ UNCHANGED calls

\* the handler open only when INSTALLER_ENABLED is the string true
PostClosedUnlessEnabled ==
  /\ pc = "request"
  /\ UNCHANGED <<envVars, payloadOk, req, delVars, listVars, raceVars, appVars>>
  /\ UNCHANGED <<events, closeCalls, writerClosed, functions, thrown>>
  /\ IF ~originAllowed THEN
       /\ response' = 403 /\ pc' = "not_started"
       /\ UNCHANGED <<skippedSteps, calls, resolved, hasLocalEdgeFunctions>>
     ELSE IF installerEnabled # EnvTrue THEN
       /\ response' = 403 /\ pc' = "not_started"
       /\ UNCHANGED <<skippedSteps, calls, resolved, hasLocalEdgeFunctions>>
     ELSE IF ~payloadOk THEN
       /\ response' = 400 /\ pc' = "not_started"
       /\ UNCHANGED <<skippedSteps, calls, resolved, hasLocalEdgeFunctions>>
     ELSE IF Truthy(expectedToken) /\ req.installerToken # expectedToken THEN
       /\ response' = 403 /\ pc' = "not_started"
       /\ UNCHANGED <<skippedSteps, calls, resolved, hasLocalEdgeFunctions>>
     ELSE
       /\ response' = 200
       /\ skippedSteps' = SkipSet(req.healthCheck)
       /\ resolved' = ResolvedFromRequest(req)
       /\ IF req.deployEdgeFunctions
          THEN /\ calls' = Invoke("listEdgeFunctionSlugs")
               /\ pc' = "listEdgeFunctionSlugs"
               /\ UNCHANGED hasLocalEdgeFunctions
          ELSE /\ hasLocalEdgeFunctions' = FALSE
               /\ pc' = "credentials"
               /\ UNCHANGED calls

\* POST, lines 108-191 and 380-386: the gates, the Skip Set, the stream, the
\* synchronous prefix of the detached task, and the returned Response.
Post ==
  /\ pc = "request"
  /\ UNCHANGED <<envVars, payloadOk, req, delVars, listVars, raceVars, appVars>>
  /\ UNCHANGED <<events, closeCalls, writerClosed, functions, thrown>>
  /\ IF ~originAllowed THEN
       /\ response' = 403 /\ pc' = "not_started"
       /\ UNCHANGED <<skippedSteps, calls, resolved, hasLocalEdgeFunctions>>
     ELSE IF installerEnabled = EnvFalse THEN
       /\ response' = 403 /\ pc' = "not_started"
       /\ UNCHANGED <<skippedSteps, calls, resolved, hasLocalEdgeFunctions>>
     ELSE IF ~payloadOk THEN
       /\ response' = 400 /\ pc' = "not_started"
       /\ UNCHANGED <<skippedSteps, calls, resolved, hasLocalEdgeFunctions>>
     ELSE IF Truthy(expectedToken) /\ req.installerToken # expectedToken THEN
       /\ response' = 403 /\ pc' = "not_started"
       /\ UNCHANGED <<skippedSteps, calls, resolved, hasLocalEdgeFunctions>>
     ELSE
       /\ response' = 200
       /\ skippedSteps' = SkipSet(req.healthCheck)
       /\ resolved' = ResolvedFromRequest(req)
       /\ IF req.deployEdgeFunctions
          THEN /\ calls' = Invoke("listEdgeFunctionSlugs")
               /\ pc' = "listEdgeFunctionSlugs"
               /\ UNCHANGED hasLocalEdgeFunctions
          ELSE /\ hasLocalEdgeFunctions' = FALSE
               /\ pc' = "credentials"
               /\ UNCHANGED calls

\* line 186: listEdgeFunctionSlugs() settles
SettleList ==
  /\ pc = "listEdgeFunctionSlugs"
  /\ UNCHANGED <<fixedVars, resolved, functions>>
  /\ \/ /\ \E found \in BOOLEAN : hasLocalEdgeFunctions' = found
        /\ calls' = Settled("ok")
        /\ Go(<<>>, "credentials")
     \/ /\ \E kind \in ThrownKinds : Throw("listEdgeFunctionSlugs", kind)
        /\ calls' = Settled("threw")
        /\ UNCHANGED hasLocalEdgeFunctions

\* the check with `&&` for `||`: rejects only when both credentials are missing
CheckCredentialsBothMissing ==
  /\ pc = "credentials"
  /\ UNCHANGED <<fixedVars, calls, resolved, hasLocalEdgeFunctions, functions>>
  /\ IF NeedsManagementApi /\ (~Truthy(resolved.accessToken) /\ ~Truthy(resolved.projectRef))
     THEN Fail(IF ~Truthy(resolved.accessToken) THEN MsgNoAccessToken ELSE MsgNoProjectRef)
     ELSE Go(<<PhaseEvent("coordinates", 5)>>, "keys")

\* lines 190-204: the credential check, then the first phase event
CheckCredentials ==
  /\ pc = "credentials"
  /\ UNCHANGED <<fixedVars, calls, resolved, hasLocalEdgeFunctions, functions>>
  /\ IF NeedsManagementApi /\ (~Truthy(resolved.accessToken) \/ ~Truthy(resolved.projectRef))
     THEN Fail(IF ~Truthy(resolved.accessToken) THEN MsgNoAccessToken ELSE MsgNoProjectRef)
     ELSE Go(<<PhaseEvent("coordinates", 5)>>, "keys")

BeginKeysAlways ==
  /\ pc = "keys"
  /\ UNCHANGED <<fixedVars, resolved, hasLocalEdgeFunctions, functions>>
  /\ calls' = Invoke("resolveSupabaseApiKeys")
  /\ Go(<<>>, "resolveSupabaseApiKeys")

\* lines 206-211 and 222
BeginKeys ==
  /\ pc = "keys"
  /\ UNCHANGED <<fixedVars, resolved, hasLocalEdgeFunctions, functions>>
  /\ IF NeedsKeys
     THEN /\ calls' = Invoke("resolveSupabaseApiKeys")
          /\ Go(<<>>, "resolveSupabaseApiKeys")
     ELSE /\ Go(<<PhaseEvent("coordinates", 10)>>, "db")
          /\ UNCHANGED calls

\* the key resolution assigning the public key only
SettleKeysPublicOnly ==
  /\ pc = "resolveSupabaseApiKeys"
  /\ UNCHANGED <<fixedVars, hasLocalEdgeFunctions, functions>>
  /\ \/ /\ calls' = Settled("ok")
        /\ resolved' = [resolved EXCEPT !.anonKey = FetchedAnonKey]
        /\ Go(<<PhaseEvent("coordinates", 10)>>, "db")
     \/ /\ calls' = Settled("failed")
        /\ Fail(MsgKeysFailed)
        /\ UNCHANGED resolved
     \/ /\ \E kind \in ThrownKinds : Throw("resolveSupabaseApiKeys", kind)
        /\ calls' = Settled("threw")
        /\ UNCHANGED resolved

\* lines 208-222: resolveSupabaseApiKeys settles
SettleKeys ==
  /\ pc = "resolveSupabaseApiKeys"
  /\ UNCHANGED <<fixedVars, hasLocalEdgeFunctions, functions>>
  /\ \/ /\ calls' = Settled("ok")
        /\ resolved' = [resolved EXCEPT !.anonKey = FetchedAnonKey,
                                        !.serviceRoleKey = FetchedSecretKey]
        /\ Go(<<PhaseEvent("coordinates", 10)>>, "db")
     \/ /\ calls' = Settled("failed")
        /\ Fail(MsgKeysFailed)
        /\ UNCHANGED resolved
     \/ /\ \E kind \in ThrownKinds : Throw("resolveSupabaseApiKeys", kind)
        /\ calls' = Settled("threw")
        /\ UNCHANGED resolved

\* lines 224-229 and 239
BeginDb ==
  /\ pc = "db"
  /\ UNCHANGED <<fixedVars, resolved, hasLocalEdgeFunctions, functions>>
  /\ IF NeedsDb
     THEN /\ calls' = Invoke("resolveSupabaseDbUrlViaCliLoginRole")
          /\ Go(<<>>, "resolveSupabaseDbUrlViaCliLoginRole")
     ELSE /\ Go(<<PhaseEvent("coordinates", 15)>>, "envs")
          /\ UNCHANGED calls

\* the DB-URL sub-step reported with an event of type progress
SettleDbSendsProgress ==
  /\ pc = "resolveSupabaseDbUrlViaCliLoginRole"
  /\ UNCHANGED <<fixedVars, hasLocalEdgeFunctions, functions>>
  /\ \/ /\ calls' = Settled("ok")
        /\ resolved' = [resolved EXCEPT !.dbUrl = FetchedDbUrl]
        /\ Go(<<[type |-> "progress", progress |-> 15]>>, "envs")
     \/ /\ calls' = Settled("failed")
        /\ Fail(MsgDbFailed)
        /\ UNCHANGED resolved
     \/ /\ \E kind \in ThrownKinds : Throw("resolveSupabaseDbUrlViaCliLoginRole", kind)
        /\ calls' = Settled("threw")
        /\ UNCHANGED resolved

\* lines 226-239: resolveSupabaseDbUrlViaCliLoginRole settles
SettleDb ==
  /\ pc = "resolveSupabaseDbUrlViaCliLoginRole"
  /\ UNCHANGED <<fixedVars, hasLocalEdgeFunctions, functions>>
  /\ \/ /\ calls' = Settled("ok")
        /\ resolved' = [resolved EXCEPT !.dbUrl = FetchedDbUrl]
        /\ Go(<<PhaseEvent("coordinates", 15)>>, "envs")
     \/ /\ calls' = Settled("failed")
        /\ Fail(MsgDbFailed)
        /\ UNCHANGED resolved
     \/ /\ \E kind \in ThrownKinds : Throw("resolveSupabaseDbUrlViaCliLoginRole", kind)
        /\ calls' = Settled("threw")
        /\ UNCHANGED resolved

\* supabase.url and vercel.targets of the request (required by RunSchema)
SupabaseUrl == <<"h">>
EnvTargets == {"production", "preview"}

\* the entries without the flag that closes the installer
EnvEntriesWithoutFlag(r) ==
  <<[key |-> "NEXT_PUBLIC_SUPABASE_URL", value |-> SupabaseUrl, targets |-> EnvTargets],
    [key |-> "NEXT_PUBLIC_SUPABASE_ANON_KEY", value |-> r.anonKey, targets |-> EnvTargets],
    [key |-> "SUPABASE_SERVICE_ROLE_KEY", value |-> r.serviceRoleKey, targets |-> EnvTargets]>>

\* lines 245-250: the entries handed to upsertProjectEnvs
EnvEntries(r) ==
  <<[key |-> "NEXT_PUBLIC_SUPABASE_URL", value |-> SupabaseUrl, targets |-> EnvTargets],
    [key |-> "NEXT_PUBLIC_SUPABASE_ANON_KEY", value |-> r.anonKey, targets |-> EnvTargets],
    [key |-> "SUPABASE_SERVICE_ROLE_KEY", value |-> r.serviceRoleKey, targets |-> EnvTargets],
    [key |-> "INSTALLER_ENABLED", value |-> EnvFalse, targets |-> EnvTargets]>>

\* the coordinates phase ending without the env upsert
BeginEnvsOmitted ==
  /\ pc = "envs"
  /\ UNCHANGED <<fixedVars, resolved, hasLocalEdgeFunctions, functions, calls>>
  /\ Go(<<PhaseEvent("coordinates", 20)>>, "signal")

\* lines 241-252
BeginEnvs ==
  /\ pc = "envs"
  /\ UNCHANGED <<fixedVars, resolved, hasLocalEdgeFunctions, functions>>
  /\ calls' = Append(calls, [fn |-> "upsertProjectEnvs", status |-> "pending",
                              envs |-> EnvEntries(resolved)])
  /\ Go(<<>>, "upsertProjectEnvs")

\* lines 242-254: upsertProjectEnvs settles
SettleEnvs ==
  /\ pc = "upsertProjectEnvs"
  /\ UNCHANGED <<fixedVars, resolved, hasLocalEdgeFunctions, functions>>
  /\ \/ /\ calls' = Settled("ok")
        /\ Go(<<PhaseEvent("coordinates", 20)>>, "signal")
     \/ /\ \E kind \in ThrownKinds : Throw("upsertProjectEnvs", kind)
        /\ calls' = Settled("threw")

\* phase 2 whose skip also bypasses phase 3
BeginSignalSkipsStation ==
  /\ pc = "signal"
  /\ UNCHANGED <<fixedVars, resolved, hasLocalEdgeFunctions, functions>>
  /\ IF ~Includes(skippedSteps, "wait_project")
     THEN IF Truthy(resolved.accessToken) /\ Truthy(resolved.projectRef)
          THEN /\ calls' = Invoke("waitForSupabaseProjectReady")
               /\ Go(<<PhaseEvent("signal", 25)>>, "waitForSupabaseProjectReady")
          ELSE /\ Go(<<PhaseEvent("signal", 25), PhaseEvent("signal", 35)>>, "station")
               /\ UNCHANGED calls
     ELSE /\ Go(<<>>, "comms")
          /\ UNCHANGED calls

\* phase 2 waiting for the project whatever credentials are resolved
BeginSignalWaitsWithoutCredentials ==
  /\ pc = "signal"
  /\ UNCHANGED <<fixedVars, resolved, hasLocalEdgeFunctions, functions>>
  /\ IF ~Includes(skippedSteps, "wait_project")
     THEN /\ calls' = Invoke("waitForSupabaseProjectReady")
          /\ Go(<<PhaseEvent("signal", 25)>>, "waitForSupabaseProjectReady")
     ELSE /\ Go(<<>>, "station")
          /\ UNCHANGED calls

\* lines 256-278: phase 2, the readiness wait unless skipped
BeginSignal ==
  /\ pc = "signal"
  /\ UNCHANGED <<fixedVars, resolved, hasLocalEdgeFunctions, functions>>
  /\ IF ~Includes(skippedSteps, "wait_project")
     THEN IF Truthy(resolved.accessToken) /\ Truthy(resolved.projectRef)
          THEN /\ calls' = Invoke("waitForSupabaseProjectReady")
               /\ Go(<<PhaseEvent("signal", 25)>>, "waitForSupabaseProjectReady")
          ELSE /\ Go(<<PhaseEvent("signal", 25), PhaseEvent("signal", 35)>>, "station")
               /\ UNCHANGED calls
     ELSE /\ Go(<<>>, "station")
          /\ UNCHANGED calls

\* the readiness wait with its non-ok outcome treated as ready
SettleSignalIgnoresTimeout ==
  /\ pc = "waitForSupabaseProjectReady"
  /\ UNCHANGED <<fixedVars, resolved, hasLocalEdgeFunctions, functions>>
  /\ \/ /\ \E status \in {"ok", "failed"} : calls' = Settled(status)
        /\ Go(<<PhaseEvent("signal", 35)>>, "station")
     \/ /\ \E kind \in ThrownKinds : Throw("waitForSupabaseProjectReady", kind)
        /\ calls' = Settled("threw")

\* lines 262-275: waitForSupabaseProjectReady settles
SettleSignal ==
  /\ pc = "waitForSupabaseProjectReady"
  /\ UNCHANGED <<fixedVars, resolved, hasLocalEdgeFunctions, functions>>
  /\ \/ /\ calls' = Settled("ok")
        /\ Go(<<PhaseEvent("signal", 35)>>, "station")
     \/ /\ calls' = Settled("failed")
        /\ Fail(MsgNotReady)
     \/ /\ \E kind \in ThrownKinds : Throw("waitForSupabaseProjectReady", kind)
        /\ calls' = Settled("threw")

\* phase 3 with its phase events sent outside the skip test
BeginStationAnnounced ==
  /\ pc = "station"
  /\ UNCHANGED <<fixedVars, resolved, hasLocalEdgeFunctions, functions>>
  /\ IF ~Includes(skippedSteps, "migrations")
     THEN /\ calls' = Invoke("runSchemaMigration")
          /\ Go(<<PhaseEvent("station", 40)>>, "runSchemaMigration")
     ELSE /\ Go(<<PhaseEvent("station", 40), PhaseEvent("station", 55)>>, "comms")
          /\ UNCHANGED calls

\* phase 3 bypassed also when wait_storage is in the Skip Set
BeginStationConsultsStorage ==
  /\ pc = "station"
  /\ UNCHANGED <<fixedVars, resolved, hasLocalEdgeFunctions, functions>>
  /\ IF ~Includes(skippedSteps, "migrations") /\ ~Includes(skippedSteps, "wait_storage")
     THEN /\ calls' = Invoke("runSchemaMigration")
          /\ Go(<<PhaseEvent("station", 40)>>, "runSchemaMigration")
     ELSE /\ Go(<<>>, "comms")
          /\ UNCHANGED calls

\* lines 280-292: phase 3, the migration unless skipped
BeginStation ==
  /\ pc = "station"
  /\ UNCHANGED <<fixedVars, resolved, hasLocalEdgeFunctions, functions>>
  /\ IF ~Includes(skippedSteps, "migrations")
     THEN /\ calls' = Invoke("runSchemaMigration")
          /\ Go(<<PhaseEvent("station", 40)>>, "runSchemaMigration")
     ELSE /\ Go(<<>>, "comms")
          /\ UNCHANGED calls

\* lines 286-289: runSchemaMigration settles
SettleStation ==
  /\ pc = "runSchemaMigration"
  /\ UNCHANGED <<fixedVars, resolved, hasLocalEdgeFunctions, functions>>
  /\ \/ /\ calls' = Settled("ok")
        /\ Go(<<PhaseEvent("station", 55)>>, "comms")
     \/ /\ \E kind \in ThrownKinds : Throw("runSchemaMigration", kind)
        /\ calls' = Settled("threw")

\* phase 4 starting the secrets call and the deployment together
BeginCommsParallel ==
  /\ pc = "comms"
  /\ UNCHANGED <<fixedVars, resolved, hasLocalEdgeFunctions, functions>>
  /\ IF req.deployEdgeFunctions /\ hasLocalEdgeFunctions
     THEN /\ calls' = calls \o
                       <<[fn |-> "setSupabaseEdgeFunctionSecrets", status |-> "pending"],
                         [fn |-> "deployAllSupabaseEdgeFunctions", status |-> "pending"]>>
          /\ Go(<<PhaseEvent("comms", 60)>>, "deployAllSupabaseEdgeFunctions")
     ELSE /\ Go(<<PhaseEvent("comms", 60), PhaseEvent("comms", 75)>>, "contact")
          /\ UNCHANGED calls

\* phase 4 entering the deployer on the caller's flag alone
BeginCommsFlagOnly ==
  /\ pc = "comms"
  /\ UNCHANGED <<fixedVars, resolved, hasLocalEdgeFunctions, functions>>
  /\ IF req.deployEdgeFunctions
     THEN /\ calls' = Invoke("setSupabaseEdgeFunctionSecrets")
          /\ Go(<<PhaseEvent("comms", 60)>>, "setSupabaseEdgeFunctionSecrets")
     ELSE /\ Go(<<PhaseEvent("comms", 60), PhaseEvent("comms", 75)>>, "contact")
          /\ UNCHANGED calls

\* phase 4 announced with a progress value below the one phase 3 ends with
BeginCommsRewinds ==
  /\ pc = "comms"
  /\ UNCHANGED <<fixedVars, resolved, hasLocalEdgeFunctions, functions>>
  /\ IF req.deployEdgeFunctions /\ hasLocalEdgeFunctions
     THEN /\ calls' = Invoke("setSupabaseEdgeFunctionSecrets")
          /\ Go(<<PhaseEvent("comms", 50)>>, "setSupabaseEdgeFunctionSecrets")
     ELSE /\ Go(<<PhaseEvent("comms", 50), PhaseEvent("comms", 75)>>, "contact")
          /\ UNCHANGED calls

\* lines 294-306 and 323: phase 4, the edge functions when there are any
BeginComms ==
  /\ pc = "comms"
  /\ UNCHANGED <<fixedVars, resolved, hasLocalEdgeFunctions, functions>>
  /\ IF req.deployEdgeFunctions /\ hasLocalEdgeFunctions
     THEN /\ calls' = Invoke("setSupabaseEdgeFunctionSecrets")
          /\ Go(<<PhaseEvent("comms", 60)>>, "setSupabaseEdgeFunctionSecrets")
     ELSE /\ Go(<<PhaseEvent("comms", 60), PhaseEvent("comms", 75)>>, "contact")
          /\ UNCHANGED calls

\* the secrets step with a not-ok result followed by the deployment
SettleSecretsIgnoresFailure ==
  /\ pc = "setSupabaseEdgeFunctionSecrets"
  /\ UNCHANGED <<fixedVars, resolved, hasLocalEdgeFunctions, functions>>
  /\ \/ /\ \E status \in {"ok", "failed"} :
             calls' = Append(Settled(status),
                             [fn |-> "deployAllSupabaseEdgeFunctions", status |-> "pending"])
        /\ Go(<<PhaseEvent("comms", 65)>>, "deployAllSupabaseEdgeFunctions")
     \/ /\ \E kind \in ThrownKinds : Throw("setSupabaseEdgeFunctionSecrets", kind)
        /\ calls' = Settled("threw")

\* lines 300-320: setSupabaseEdgeFunctionSecrets settles; on success the
\* deployment of the bundles is invoked
SettleSecrets ==
  /\ pc = "setSupabaseEdgeFunctionSecrets"
  /\ UNCHANGED <<fixedVars, resolved, hasLocalEdgeFunctions, functions>>
  /\ \/ /\ calls' = Append(Settled("ok"),
                           [fn |-> "deployAllSupabaseEdgeFunctions", status |-> "pending"])
        /\ Go(<<PhaseEvent("comms", 65)>>, "deployAllSupabaseEdgeFunctions")
     \/ /\ calls' = Settled("failed")
        /\ Fail(MsgSecretsFailed)
     \/ /\ \E kind \in ThrownKinds : Throw("setSupabaseEdgeFunctionSecrets", kind)
        /\ calls' = Settled("threw")

\* lines 317-323: deployAllSupabaseEdgeFunctions settles with one result per
\* bundle; the array is stored in `functions` and not looked at
SettleDeploy ==
  /\ pc = "deployAllSupabaseEdgeFunctions"
  /\ UNCHANGED <<fixedVars, resolved, hasLocalEdgeFunctions>>
  /\ \/ /\ calls' = Settled("ok")
        /\ functions' = "all_deployed"
        /\ Go(<<PhaseEvent("comms", 75)>>, "contact")
     \/ /\ calls' = Settled("failed")
        /\ functions' = "some_failed"
        /\ Go(<<PhaseEvent("comms", 75)>>, "contact")
     \/ /\ \E kind \in ThrownKinds : Throw("deployAllSupabaseEdgeFunctions", kind)
        /\ calls' = Settled("threw")
        /\ UNCHANGED functions

\* phase 5 testing the wrong member of the Skip Set
BeginContactWrongStep ==
  /\ pc = "contact"
  /\ UNCHANGED <<fixedVars, resolved, hasLocalEdgeFunctions, functions>>
  /\ IF ~Includes(skippedSteps, "migrations")
     THEN /\ calls' = Invoke("bootstrapInstance")
          /\ Go(<<PhaseEvent("contact", 80)>>, "bootstrapInstance")
     ELSE /\ Go(<<>>, "landing")
          /\ UNCHANGED calls

\* lines 325-348: phase 5, the bootstrap unless skipped
BeginContact ==
  /\ pc = "contact"
  /\ UNCHANGED <<fixedVars, resolved, hasLocalEdgeFunctions, functions>>
  /\ IF ~Includes(skippedSteps, "bootstrap")
     THEN /\ calls' = Invoke("bootstrapInstance")
          /\ Go(<<PhaseEvent("contact", 80)>>, "bootstrapInstance")
     ELSE /\ Go(<<>>, "landing")
          /\ UNCHANGED calls

\* lines 331-345: bootstrapInstance settles
SettleContact ==
  /\ pc = "bootstrapInstance"
  /\ UNCHANGED <<fixedVars, resolved, hasLocalEdgeFunctions, functions>>
  /\ \/ /\ calls' = Settled("ok")
        /\ Go(<<PhaseEvent("contact", 90)>>, "landing")
     \/ /\ calls' = Settled("failed")
        /\ Fail(MsgBootstrapFailed)
     \/ /\ \E kind \in ThrownKinds : Throw("bootstrapInstance", kind)
        /\ calls' = Settled("threw")

\* the redeploy invoked before the landing phase is announced
BeginLandingUnannounced ==
  /\ pc = "landing"
  /\ UNCHANGED <<fixedVars, resolved, hasLocalEdgeFunctions, functions>>
  /\ calls' = Invoke("triggerProjectRedeploy")
  /\ Go(<<>>, "triggerProjectRedeploy")

\* lines 350-360: phase 6, the redeploy
BeginLanding ==
  /\ pc = "landing"
  /\ UNCHANGED <<fixedVars, resolved, hasLocalEdgeFunctions, functions>>
  /\ calls' = Invoke("triggerProjectRedeploy")
  /\ Go(<<PhaseEvent("landing", 92)>>, "triggerProjectRedeploy")

\* the end of the run without the phase event of the complete phase
SettleLandingNoCompletePhase ==
  /\ pc = "triggerProjectRedeploy"
  /\ UNCHANGED <<fixedVars, resolved, hasLocalEdgeFunctions, functions>>
  /\ \E status \in {"ok", "failed", "threw"} : calls' = Settled(status)
  /\ Go(<<PhaseEvent("landing", 98), CompleteEvent>>, "finally")

\* the redeploy with its exception reaching the outer catch
SettleLandingRethrows ==
  /\ pc = "triggerProjectRedeploy"
  /\ UNCHANGED <<fixedVars, resolved, hasLocalEdgeFunctions, functions>>
  /\ \/ /\ \E status \in {"ok", "failed"} : calls' = Settled(status)
        /\ Go(<<PhaseEvent("landing", 98), PhaseEvent("complete", 100), CompleteEvent>>,
              "finally")
     \/ /\ \E kind \in ThrownKinds : Throw("triggerProjectRedeploy", kind)
        /\ calls' = Settled("threw")

\* the end of the run with the complete phase sent before landing ends
SettleLandingCompleteFirst ==
  /\ pc = "triggerProjectRedeploy"
  /\ UNCHANGED <<fixedVars, resolved, hasLocalEdgeFunctions, functions>>
  /\ \E status \in {"ok", "failed", "threw"} : calls' = Settled(status)
  /\ Go(<<PhaseEvent("complete", 100), PhaseEvent("landing", 98), CompleteEvent>>, "finally")

\* lines 354-370: triggerProjectRedeploy settles (its value is ignored, its
\* exception swallowed by the inner catch), then the run completes
SettleLanding ==
  /\ pc = "triggerProjectRedeploy"
  /\ UNCHANGED <<fixedVars, resolved, hasLocalEdgeFunctions, functions>>
  /\ \E status \in {"ok", "failed", "threw"} : calls' = Settled(status)
  /\ Go(<<PhaseEvent("landing", 98), PhaseEvent("complete", 100), CompleteEvent>>, "finally")

\* lines 372-374: the outer catch
Catch ==
  /\ pc = "catch"
  /\ UNCHANGED <<fixedVars, calls, resolved, hasLocalEdgeFunctions, functions>>
  /\ Go(<<ErrorEvent(IF thrown.kind = "Error" THEN thrown.message ELSE MsgGeneric)>>, "finally")

\* a finally block that does not close the writer
FinallyLeavesOpen ==
  /\ pc = "finally"
  /\ UNCHANGED <<fixedVars, calls, resolved, hasLocalEdgeFunctions, functions>>
  /\ UNCHANGED <<events, thrown, closeCalls, writerClosed>>
  /\ pc' = "done"

\* lines 375-377: the finally block. close() on a writer that is already
\* closed rejects, and nothing awaits the task: an unhandled rejection.
Finally ==
  /\ pc = "finally"
  /\ UNCHANGED <<fixedVars, calls, resolved, hasLocalEdgeFunctions, functions>>
  /\ UNCHANGED <<events, thrown>>
  /\ closeCalls' = closeCalls + 1
  /\ writerClosed' = TRUE
  /\ pc' = IF writerClosed THEN "unhandled_rejection" ELSE "done"

\* ------------------------------------------- run-stream: the task as a function

\* the state of a run as far as a client and the collaborators see it
NoTrace == [events |-> <<>>, calls |-> <<>>, over |-> FALSE]

Emit(st, evs) == IF st.over THEN st ELSE [st EXCEPT !.events = @ \o evs]

\* `call` is awaited and settles with `status` (kind: what it threw): on ok
\* the events `post` follow; a result that is not ok ends the run with the
\* error `failMsg`, or is not looked at when failMsg is empty; a rejection
\* ends the run in the outer catch
Await(st, call, status, kind, post, failMsg) ==
  IF st.over THEN st
  ELSE LET settled == Append(st.calls, [call EXCEPT !.status = status])
       IN  IF status = "ok" \/ (status = "failed" /\ failMsg = "")
           THEN [events |-> st.events \o post, calls |-> settled, over |-> FALSE]
           ELSE IF status = "failed"
           THEN [events |-> Append(st.events, ErrorEvent(failMsg)),
                 calls |-> settled, over |-> TRUE]
           ELSE [events |-> Append(st.events,
                                   ErrorEvent(IF kind = "Error" THEN ExceptionMessage(call.fn)
                                              ELSE MsgGeneric)),
                 calls |-> settled, over |-> TRUE]

PendingCall(fn) == [fn |-> fn, status |-> "pending"]

\* lines 161-378: the events written and the calls made by the task for the
\* request r, when listEdgeFunctionSlugs finds bundles iff `found`, the call
\* of fn settles with status[fn], and a rejection throws a value of `kind`
RunTrace(r, found, status, kind) ==
  LET skip == SkipSet(r.healthCheck)
      res == ResolvedFromRequest(r)
      needsKeys == ~Truthy(res.anonKey) \/ ~Truthy(res.serviceRoleKey)
      needsDb == ~Truthy(res.dbUrl)
      hasLocal == r.deployEdgeFunctions /\ found
      hasCreds == Truthy(res.accessToken) /\ Truthy(res.projectRef)
      s1 == IF r.deployEdgeFunctions
            THEN Await(NoTrace, PendingCall("listEdgeFunctionSlugs"),
                       status["listEdgeFunctionSlugs"], kind, <<>>, "")
            ELSE NoTrace
      s2 == IF s1.over THEN s1
            ELSE IF (needsKeys \/ needsDb \/ hasLocal) /\ ~hasCreds
            THEN [s1 EXCEPT !.events = Append(@, ErrorEvent(
                                IF ~Truthy(res.accessToken) THEN MsgNoAccessToken
                                ELSE MsgNoProjectRef)),
                            !.over = TRUE]
            ELSE Emit(s1, <<PhaseEvent("coordinates", 5)>>)
      s3 == IF needsKeys
            THEN Await(s2, PendingCall("resolveSupabaseApiKeys"),
                       status["resolveSupabaseApiKeys"], kind,
                       <<PhaseEvent("coordinates", 10)>>, MsgKeysFailed)
            ELSE Emit(s2, <<PhaseEvent("coordinates", 10)>>)
      s4 == IF needsDb
            THEN Await(s3, PendingCall("resolveSupabaseDbUrlViaCliLoginRole"),
                       status["resolveSupabaseDbUrlViaCliLoginRole"], kind,
                       <<PhaseEvent("coordinates", 15)>>, MsgDbFailed)
            ELSE Emit(s3, <<PhaseEvent("coordinates", 15)>>)
      keys == IF needsKeys
              THEN [res EXCEPT !.anonKey = FetchedAnonKey, !.serviceRoleKey = FetchedSecretKey]
              ELSE res
      s5 == Await(s4, [fn |-> "upsertProjectEnvs", status |-> "pending",
                       envs |-> EnvEntries(keys)],
                  status["upsertProjectEnvs"], kind, <<PhaseEvent("coordinates", 20)>>, "")
      s6 == IF Includes(skip, "wait_project") THEN s5
            ELSE IF hasCreds
            THEN Await(Emit(s5, <<PhaseEvent("signal", 25)>>),
                       PendingCall("waitForSupabaseProjectReady"),
                       status["waitForSupabaseProjectReady"], kind,
                       <<PhaseEvent("signal", 35)>>, MsgNotReady)
            ELSE Emit(s5, <<PhaseEvent("signal", 25), PhaseEvent("signal", 35)>>)
      s7 == IF Includes(skip, "migrations") THEN s6
            ELSE Await(Emit(s6, <<PhaseEvent("station", 40)>>),
                       PendingCall("runSchemaMigration"),
                       status["runSchemaMigration"], kind, <<PhaseEvent("station", 55)>>, "")
      s8 == IF hasLocal
            THEN Await(Await(Emit(s7, <<PhaseEvent("comms", 60)>>),
                             PendingCall("setSupabaseEdgeFunctionSecrets"),
                             status["setSupabaseEdgeFunctionSecrets"], kind,
                             <<PhaseEvent("comms", 65)>>, MsgSecretsFailed),
                       PendingCall("deployAllSupabaseEdgeFunctions"),
                       status["deployAllSupabaseEdgeFunctions"], kind,
                       <<PhaseEvent("comms", 75)>>, "")
            ELSE Emit(s7, <<PhaseEvent("comms", 60), PhaseEvent("comms", 75)>>)
      s9 == IF Includes(skip, "bootstrap") THEN s8
            ELSE Await(Emit(s8, <<PhaseEvent("contact", 80)>>),
                       PendingCall("bootstrapInstance"),
                       status["bootstrapInstance"], kind,
                       <<PhaseEvent("contact", 90)>>, MsgBootstrapFailed)
      s10 == IF s9.over THEN s9
             ELSE [events |-> s9.events \o
                     <<PhaseEvent("landing", 92), PhaseEvent("landing", 98),
                       PhaseEvent("complete", 100), CompleteEvent>>,
                   calls |-> Append(s9.calls,
                                    [fn |-> "triggerProjectRedeploy",
                                     status |-> status["triggerProjectRedeploy"]]),
                   over |-> TRUE]
  IN  s10

\* ------------------------------------------------------ delete-project route

MaxRefLen == 2

RefChars == {" ", "a", "b"}

\* the strings a caller may send as projectRef / confirmRef
RefStrings == UNION {[1..n -> RefChars] : n \in 0..MaxRefLen}

NoDelRequest == [null |-> TRUE]

\* req.json(): null when the body does not parse, else the object sent
DelBodies ==
  {NoDelRequest} \cup
  [installerToken : InstallerTokens,
   accessToken : {Undefined, <<>>, Blank, <<"t">>},
   projectRef : RefStrings \cup {Undefined},
   confirmRef : RefStrings \cup {Undefined}]

\* Schema.safeParse(raw).success, lines 400-407
DelSchemaOk(raw) ==
  /\ raw # NoDelRequest
  /\ \A f \in {"accessToken", "projectRef", "confirmRef"} :
       raw[f] # Undefined /\ Len(raw[f]) >= 1

\* a handler that compares nothing: the deletion is invoked for any valid body
PostDeleteUnconfirmed ==
  /\ delResponse = 0 /\ delCalls = <<>>
  /\ UNCHANGED <<envVars, payloadOk, req, runVars, delReq, listVars, raceVars, appVars>>
  /\ IF ~originAllowed \/ installerEnabled = EnvFalse THEN
       delResponse' = 403 /\ UNCHANGED delCalls
     ELSE IF ~DelSchemaOk(delReq) THEN
       delResponse' = 400 /\ UNCHANGED delCalls
     ELSE IF Truthy(expectedToken) /\ delReq.installerToken # expectedToken THEN
       delResponse' = 403 /\ UNCHANGED delCalls
     ELSE
       /\ delCalls' = <<[accessToken |-> Trim(delReq.accessToken),
                         projectRef |-> Trim(delReq.projectRef),
                         status |-> "pending"]>>
       /\ UNCHANGED delResponse

\* POST of the delete route, lines 409-435: the gates, the confirmation
\* check, and the invocation of deleteSupabaseProject
PostDelete ==
  /\ delResponse = 0 /\ delCalls = <<>>
  /\ UNCHANGED <<envVars, payloadOk, req, runVars, delReq, listVars, raceVars, appVars>>
  /\ IF ~originAllowed THEN
       delResponse' = 403 /\ UNCHANGED delCalls
     ELSE IF installerEnabled = EnvFalse THEN
       delResponse' = 403 /\ UNCHANGED delCalls
     ELSE IF ~DelSchemaOk(delReq) THEN
       delResponse' = 400 /\ UNCHANGED delCalls
     ELSE IF Truthy(expectedToken) /\ delReq.installerToken # expectedToken THEN
       delResponse' = 403 /\ UNCHANGED delCalls
     ELSE IF Trim(delReq.confirmRef) # Trim(delReq.projectRef) THEN
       delResponse' = 400 /\ UNCHANGED delCalls
     ELSE
       /\ delCalls' = <<[accessToken |-> Trim(delReq.accessToken),
                         projectRef |-> Trim(delReq.projectRef),
                         status |-> "pending"]>>
       /\ UNCHANGED delResponse

\* lines 432-438: deleteSupabaseProject settles; `failure` is res.status of a
\* result that is not ok (0 when it carries none)
SettleDelete ==
  /\ delResponse = 0 /\ delCalls # <<>>
  /\ UNCHANGED <<envVars, payloadOk, req, runVars, delReq, listVars, raceVars, appVars>>
  /\ \/ /\ delCalls' = [delCalls EXCEPT ![1].status = "ok"]
        /\ delResponse' = 200
     \/ /\ delCalls' = [delCalls EXCEPT ![1].status = "failed"]
        /\ \E failure \in {0, 404} : delResponse' = IF failure # 0 THEN failure ELSE 500

\* ------------------------------------------------------- list-projects route

NoListRequest == [null |-> TRUE]

\* req.json() of the list route: null when the body does not parse
ListBodies ==
  {NoListRequest} \cup
  [installerToken : InstallerTokens,
   accessToken : {Undefined, <<"t">>},
   organizationSlug : {Undefined, <<>>, <<"o">>}]

\* Schema.safeParse(raw).success of the list route (`statuses` is optional)
ListSchemaOk(raw) ==
  /\ raw # NoListRequest
  /\ \A f \in {"accessToken", "organizationSlug"} :
       raw[f] # Undefined /\ Len(raw[f]) >= 1

\* POST of the list route: the gates, then getSupabaseOrganization is invoked
PostList ==
  /\ listResponse = 0 /\ listCalls = <<>>
  /\ UNCHANGED <<envVars, payloadOk, req, runVars, delVars, listReq, raceVars, appVars>>
  /\ IF ~originAllowed THEN
       listResponse' = 403 /\ UNCHANGED listCalls
     ELSE IF installerEnabled = EnvFalse THEN
       listResponse' = 403 /\ UNCHANGED listCalls
     ELSE IF ~ListSchemaOk(listReq) THEN
       listResponse' = 400 /\ UNCHANGED listCalls
     ELSE IF Truthy(expectedToken) /\ listReq.installerToken # expectedToken THEN
       listResponse' = 403 /\ UNCHANGED listCalls
     ELSE
       /\ listCalls' = <<[fn |-> "getSupabaseOrganization", status |-> "pending"]>>
       /\ UNCHANGED listResponse

\* getSupabaseOrganization settles; on success the projects are listed.
\* `failure` is the status of a result that is not ok (0 when it has none)
SettleOrganization ==
  /\ listResponse = 0 /\ Len(listCalls) = 1
  /\ UNCHANGED <<envVars, payloadOk, req, runVars, delVars, listReq, raceVars, appVars>>
  /\ \/ /\ listCalls' = <<[fn |-> "getSupabaseOrganization", status |-> "ok"],
                          [fn |-> "listSupabaseOrganizationProjects", status |-> "pending"]>>
        /\ UNCHANGED listResponse
     \/ /\ listCalls' = [listCalls EXCEPT ![1].status = "failed"]
        /\ \E failure \in {0, 404} : listResponse' = IF failure # 0 THEN failure ELSE 500

\* listSupabaseOrganizationProjects settles
SettleProjects ==
  /\ listResponse = 0 /\ Len(listCalls) = 2
  /\ UNCHANGED <<envVars, payloadOk, req, runVars, delVars, listReq, raceVars, appVars>>
  /\ \/ /\ listCalls' = [listCalls EXCEPT ![2].status = "ok"]
        /\ listResponse' = 200
     \/ /\ listCalls' = [listCalls EXCEPT ![2].status = "failed"]
        /\ \E failure \in {0, 404} : listResponse' = IF failure # 0 THEN failure ELSE 500

\* ------------------------------------------------- concurrent run-stream runs

MaxRuns == 2

\* the requests handled concurrently, all naming the same project reference
Runs == 1..MaxRuns

\* the external calls of a run whose request supplies the keys and the DB
\* URL, names the project, opts out of the function deploy and carries an
\* empty Skip Set, in source order
RunSteps == <<"upsertProjectEnvs", "waitForSupabaseProjectReady", "runSchemaMigration",
              "bootstrapInstance", "triggerProjectRedeploy">>

StepNames == {RunSteps[i] : i \in 1..Len(RunSteps)}

RunEndedAt == Len(RunSteps) + 1

\* POST admits request r: its skippedSteps, stream, writer and resolved
\* values are locals of this invocation, and no state of another
\* invocation is read
RunPost(r) ==
  /\ runPos[r] = 0
  /\ runPos' = [runPos EXCEPT ![r] = 1]
  /\ UNCHANGED <<runAwaiting, runOutcome, target>>
  /\ UNCHANGED <<envVars, payloadOk, req, runVars, delVars, listVars, appVars>>

\* a run that starts a step only while no other run has that step in flight
RunInvokeSerialised(r) ==
  /\ runPos[r] \in 1..Len(RunSteps) /\ ~runAwaiting[r] /\ runOutcome[r] = "none"
  /\ \A o \in Runs \ {r} : ~(runAwaiting[o] /\ runPos[o] = runPos[r])
  /\ runAwaiting' = [runAwaiting EXCEPT ![r] = TRUE]
  /\ target' = [target EXCEPT ![RunSteps[runPos[r]]] = @ + 1]
  /\ UNCHANGED <<runPos, runOutcome>>
  /\ UNCHANGED <<envVars, payloadOk, req, runVars, delVars, listVars, appVars>>

\* the task of request r invokes its current step against the project
RunInvoke(r) ==
  /\ runPos[r] \in 1..Len(RunSteps) /\ ~runAwaiting[r] /\ runOutcome[r] = "none"
  /\ runAwaiting' = [runAwaiting EXCEPT ![r] = TRUE]
  /\ target' = [target EXCEPT ![RunSteps[runPos[r]]] = @ + 1]
  /\ UNCHANGED <<runPos, runOutcome>>
  /\ UNCHANGED <<envVars, payloadOk, req, runVars, delVars, listVars, appVars>>

\* the step of request r settles: the run goes on, completes after the
\* redeploy (whose failure is swallowed), or ends in error at this step
RunSettle(r) ==
  /\ runPos[r] \in 1..Len(RunSteps) /\ runAwaiting[r]
  /\ runAwaiting' = [runAwaiting EXCEPT ![r] = FALSE]
  /\ UNCHANGED target
  /\ UNCHANGED <<envVars, payloadOk, req, runVars, delVars, listVars, appVars>>
  /\ \E ok \in BOOLEAN :
       IF RunSteps[runPos[r]] = "triggerProjectRedeploy" THEN
         /\ runPos' = [runPos EXCEPT ![r] = RunEndedAt]
         /\ runOutcome' = [runOutcome EXCEPT ![r] = "complete"]
       ELSE IF ok THEN
         /\ runPos' = [runPos EXCEPT ![r] = @ + 1]
         /\ UNCHANGED runOutcome
       ELSE
         /\ runOutcome' = [runOutcome EXCEPT ![r] = "error"]
         /\ UNCHANGED runPos

\* ---------------------------------------------------------------- Home page

\* { data, error } of the rpc, or a rejection of createClient / rpc
RpcOutcomes ==
  [kind : {"resolved"}, data : {"true", "false", "null"}, error : BOOLEAN]
    \cup {[kind |-> "threw"]}

NoRpc == [kind |-> "none"]

HomeIdle ==
  /\ homePc = "idle"
  /\ homeRpc = NoRpc
  /\ homeCaught = "none"
  /\ homeRedirect = "none"

\* lines 13-15 and 19-21: the installer flag, then the rpc is awaited.
\* redirect() throws; outside the try the throw leaves Home.
Home ==
  /\ homePc = "idle"
  /\ IF installerEnabled # EnvFalse
     THEN /\ homeRedirect' = "/install"
          /\ homePc' = "done"
     ELSE /\ homePc' = "rpc"
          /\ UNCHANGED homeRedirect
  /\ UNCHANGED <<homeRpc, homeCaught, installerVars, inviteVars, mcpVars, promptVars>>

\* lines 19-27: the rpc settles inside the try; redirect('/setup') throws
\* inside the try, and the catch, which binds nothing and rethrows nothing,
\* receives that throw like any other
SettleRpc ==
  /\ homePc = "rpc"
  /\ \E out \in RpcOutcomes :
       /\ homeRpc' = out
       /\ homeCaught' = IF out.kind = "threw" THEN "exception"
                        ELSE IF ~out.error /\ out.data = "false" THEN "/setup"
                        ELSE "none"
  /\ homePc' = "dashboard"
  /\ UNCHANGED <<homeRedirect, installerVars, inviteVars, mcpVars, promptVars>>

\* line 29: after the try statement
RedirectDashboard ==
  /\ homePc = "dashboard"
  /\ homeRedirect' = "/dashboard"
  /\ homePc' = "done"
  /\ UNCHANGED <<homeRpc, homeCaught, installerVars, inviteVars, mcpVars, promptVars>>

\* ------------------------------------------------------- admin invites route

Users == {"user1"}
Orgs == {"org1", "org2"}

NoProfile == [error |-> TRUE]

\* the row `.eq('id', user.id).single()` gives for user u, or an error
ProfilesOf(u) ==
  {[error |-> FALSE, id |-> u, role |-> r, organization_id |-> o] :
     r \in {"admin", "vendedor"}, o \in Orgs \cup {"null"}}
    \cup {NoProfile}

NoInviteBody == [unparsable |-> TRUE]

\* JSON objects; "undefined" marks an absent key
InviteBodies ==
  [role : {"undefined", "admin", "vendedor", "owner"},
   expiresAt : {"undefined", "null", "2026-01-01T00:00:00Z", "tomorrow"},
   email : {"undefined", "ana@crm.io", "ana"},
   organization_id : {"undefined", "org2"},
   created_by : {"undefined", "user2"}]
    \cup {NoInviteBody}

IsDatetime(v) == v = "2026-01-01T00:00:00Z"
IsEmail(v) == v = "ana@crm.io"

\* lines 14-20: CreateInviteSchema.safeParse(raw).success
CreateInviteSchemaOk(raw) ==
  /\ raw # NoInviteBody
  /\ raw.role \in {"undefined", "admin", "vendedor"}
  /\ raw.expiresAt = "undefined" \/ raw.expiresAt = "null" \/ IsDatetime(raw.expiresAt)
  /\ raw.email = "undefined" \/ IsEmail(raw.email)
  /\ raw.organization_id = "undefined"
  /\ raw.created_by = "undefined"

\* lines 94-100: the row handed to insert
InviteRow(me, raw) ==
  [op |-> "insert",
   organization_id |-> me.organization_id,
   role |-> IF raw.role = "undefined" THEN "vendedor" ELSE raw.role,
   email |-> IF raw.email = "undefined" THEN "null" ELSE raw.email,
   expires_at |-> IF raw.expiresAt = "undefined" THEN "null" ELSE raw.expiresAt,
   created_by |-> me.id]

\* lines 46-52: the query of GET
InviteQuery(me) ==
  [op |-> "select", organization_id |-> me.organization_id, used_at |-> "null"]

NoMe == [unset |-> TRUE]

InvitesIdle ==
  /\ invMethod = "none"
  /\ invPc = "idle"
  /\ invUser = "unset"
  /\ invMe = NoMe
  /\ invResponse = 0
  /\ invCalls = <<>>

InviteFrame ==
  UNCHANGED <<invSession, invProfile, invBody, invDbError, installerVars, homeVars, mcpVars, promptVars>>

\* lines 26-31: GET has no origin test
Get ==
  /\ invPc = "idle"
  /\ invMethod' = "GET"
  /\ invPc' = "getUser"
  /\ UNCHANGED <<invUser, invMe, invResponse, invCalls>>
  /\ InviteFrame

\* lines 64-71
PostInvite ==
  /\ invPc = "idle"
  /\ invMethod' = "POST"
  /\ IF ~originAllowed
     THEN invResponse' = 403 /\ invPc' = "done"
     ELSE invPc' = "getUser" /\ UNCHANGED invResponse
  /\ UNCHANGED <<invUser, invMe, invCalls>>
  /\ InviteFrame

\* lines 29-33 and 69-73
SettleGetUser ==
  /\ invPc = "getUser"
  /\ invUser' = invSession
  /\ IF invSession = "null"
     THEN invResponse' = 401 /\ invPc' = "done"
     ELSE invPc' = "profiles" /\ UNCHANGED invResponse
  /\ UNCHANGED <<invMethod, invMe, invCalls>>
  /\ InviteFrame

\* the role of the caller is not looked at
SettleProfilesAnyRole ==
  /\ invPc = "profiles"
  /\ invMe' = invProfile
  /\ IF invProfile.error \/ invProfile.organization_id = "null"
     THEN invResponse' = 404 /\ invPc' = "done" /\ UNCHANGED invCalls
     ELSE IF invMethod = "GET"
     THEN /\ invCalls' = Append(invCalls, InviteQuery(invProfile))
          /\ invPc' = "organization_invites"
          /\ UNCHANGED invResponse
     ELSE IF ~CreateInviteSchemaOk(invBody)
     THEN invResponse' = 400 /\ invPc' = "done" /\ UNCHANGED invCalls
     ELSE /\ invCalls' = Append(invCalls, InviteRow(invProfile, invBody))
          /\ invPc' = "organization_invites"
          /\ UNCHANGED invResponse
  /\ UNCHANGED <<invMethod, invUser>>
  /\ InviteFrame

\* lines 35-52 and 75-102: the profile arrives; 404, 403, then for POST the
\* payload is parsed (400) and the insert is sent, for GET the query is sent
SettleProfiles ==
  /\ invPc = "profiles"
  /\ invMe' = invProfile
  /\ IF invProfile.error \/ invProfile.organization_id = "null"
     THEN invResponse' = 404 /\ invPc' = "done" /\ UNCHANGED invCalls
     ELSE IF invProfile.role # "admin"
     THEN invResponse' = 403 /\ invPc' = "done" /\ UNCHANGED invCalls
     ELSE IF invMethod = "GET"
     THEN /\ invCalls' = Append(invCalls, InviteQuery(invProfile))
          /\ invPc' = "organization_invites"
          /\ UNCHANGED invResponse
     ELSE IF ~CreateInviteSchemaOk(invBody)
     THEN invResponse' = 400 /\ invPc' = "done" /\ UNCHANGED invCalls
     ELSE /\ invCalls' = Append(invCalls, InviteRow(invProfile, invBody))
          /\ invPc' = "organization_invites"
          /\ UNCHANGED invResponse
  /\ UNCHANGED <<invMethod, invUser>>
  /\ InviteFrame

\* lines 54-56 and 104-111
SettleInvites ==
  /\ invPc = "organization_invites"
  /\ invResponse' = IF invDbError THEN 500 ELSE IF invMethod = "POST" THEN 201 ELSE 200
  /\ invPc' = "done"
  /\ UNCHANGED <<invMethod, invUser, invMe, invCalls>>
  /\ InviteFrame

\* --------------------------------------------------------------- McpSection

MaxClicks == 2
Clicks == 1..MaxClicks

\* what the user puts in the key field
TypedKey == <<"k">>
KeyInputs == {<<>>, <<" ">>, TypedKey, <<" ", "k">>}
\* row.token of create_api_key
NewToken == <<"t">>

NullResult == [null |-> TRUE]
ToastNoSupabase == "Supabase não configurado neste ambiente."
ToastKeyCreated == "API key criada e preenchida. (Ela aparece só uma vez.)"
ToastCreateFailed == "Erro ao criar chave"
ToastNoKey == "Cole uma API key para testar."

IdleHandler == [kind |-> "none", pc |-> "idle", apiKey |-> <<>>, created |-> "none",
                initialize |-> "none", list |-> "none", result |-> NullResult]

McpIdle ==
  /\ apiKey = <<>>
  /\ creatingKey = FALSE
  /\ testing = FALSE
  /\ connecting = FALSE
  /\ testResult = NullResult
  /\ showHaveKey = FALSE
  /\ toasts = {}
  /\ fetched = <<>>
  /\ handlers = [i \in Clicks |-> IdleHandler]
  /\ clicks = 0

\* line 333: the field exists while the section is open
TypeKey ==
  /\ showHaveKey
  /\ \E v \in KeyInputs : apiKey' = v
  /\ UNCHANGED <<supabaseConfigured, creatingKey, testing, connecting, testResult,
                 showHaveKey, toasts, fetched, handlers, clicks>>
  /\ UNCHANGED <<installerVars, homeVars, inviteVars, promptVars>>

\* line 319
ToggleHaveKey ==
  /\ showHaveKey' = ~showHaveKey
  /\ UNCHANGED <<supabaseConfigured, apiKey, creatingKey, testing, connecting, testResult,
                 toasts, fetched, handlers, clicks>>
  /\ UNCHANGED <<installerVars, homeVars, inviteVars, promptVars>>

ResultOk(r) == r # NullResult /\ r.ok

Request(i, method, token) == [by |-> i, method |-> method, token |-> token]

\* lines 105-133: testConnection up to its first await, run by the handler
\* i (its record so far is h) whose closure holds the key `key`
StartTest(i, key, h) ==
  IF Trim(key) = <<>>
  THEN /\ toasts' = toasts \cup {ToastNoKey}
       /\ handlers' = [handlers EXCEPT ![i] = [h EXCEPT !.pc = "done"]]
       /\ UNCHANGED <<testing, fetched>>
  ELSE /\ testing' = TRUE
       /\ fetched' = Append(fetched, Request(i, "initialize", Trim(key)))
       /\ handlers' = [handlers EXCEPT ![i] = [h EXCEPT !.pc = "initialize",
                                                        !.initialize = "pending"]]
       /\ UNCHANGED toasts

\* lines 340-341 and 105-133: a click on Test
TestConnection ==
  /\ showHaveKey /\ ~testing
  /\ clicks < MaxClicks
  /\ clicks' = clicks + 1
  /\ LET h == [IdleHandler EXCEPT !.kind = "testConnection", !.apiKey = apiKey]
     IN  StartTest(clicks + 1, apiKey, h)
  /\ testResult' = IF Trim(apiKey) = <<>> THEN testResult ELSE NullResult
  /\ UNCHANGED <<supabaseConfigured, apiKey, creatingKey, connecting, showHaveKey>>
  /\ UNCHANGED <<installerVars, homeVars, inviteVars, promptVars>>

\* lines 232-235 and 187-208: a click on Connect, up to the first await.
\* With a key in the field testConnection starts at once; with none,
\* createApiKeyInline starts (lines 52-60), or returns null at once when
\* there is no client, and connectMagic returns through its finally.
ConnectMagic ==
  /\ ~ResultOk(testResult)
  /\ ~connecting /\ ~creatingKey /\ ~testing
  /\ clicks < MaxClicks
  /\ clicks' = clicks + 1
  /\ testResult' = NullResult
  /\ LET i == clicks + 1
         h == [IdleHandler EXCEPT !.kind = "connectMagic", !.apiKey = apiKey]
     IN  IF Trim(apiKey) # <<>>
         THEN /\ showHaveKey' = TRUE
              /\ StartTest(i, apiKey, h)
              /\ connecting' = TRUE
              /\ UNCHANGED creatingKey
         ELSE IF ~supabaseConfigured
         THEN /\ toasts' = toasts \cup {ToastNoSupabase}
              /\ handlers' = [handlers EXCEPT ![i] = [h EXCEPT !.pc = "done"]]
              /\ UNCHANGED <<connecting, creatingKey, testing, fetched, showHaveKey>>
         ELSE /\ connecting' = TRUE
              /\ creatingKey' = TRUE
              /\ fetched' = Append(fetched, Request(i, "create_api_key", <<>>))
              /\ handlers' = [handlers EXCEPT ![i] = [h EXCEPT !.pc = "create_api_key"]]
              /\ UNCHANGED <<testing, toasts, showHaveKey>>
  /\ UNCHANGED <<supabaseConfigured, apiKey>>
  /\ UNCHANGED <<installerVars, homeVars, inviteVars, promptVars>>

\* lines 60-79 and 194-207: the rpc settles. With a token the field is
\* filled, createApiKeyInline returns it, and connectMagic calls the
\* testConnection of its own render, whose apiKey is the one of the click.
SettleCreateApiKey(i) ==
  /\ handlers[i].pc = "create_api_key"
  /\ creatingKey' = FALSE
  /\ \E out \in {"token", "error", "no token", "threw"} :
       LET h == [handlers[i] EXCEPT !.created = out]
       IN  IF out = "token"
           THEN /\ apiKey' = NewToken
                /\ testResult' = NullResult
                /\ showHaveKey' = TRUE
                /\ IF Trim(h.apiKey) = <<>>
                   THEN /\ toasts' = toasts \cup {ToastKeyCreated, ToastNoKey}
                        /\ handlers' = [handlers EXCEPT ![i] = [h EXCEPT !.pc = "done"]]
                        /\ connecting' = FALSE
                        /\ UNCHANGED <<testing, fetched>>
                   ELSE /\ toasts' = toasts \cup {ToastKeyCreated}
                        /\ testing' = TRUE
                        /\ fetched' = Append(fetched, Request(i, "initialize", Trim(h.apiKey)))
                        /\ handlers' = [handlers EXCEPT ![i] =
                                          [h EXCEPT !.pc = "initialize", !.initialize = "pending"]]
                        /\ UNCHANGED connecting
           ELSE /\ toasts' = toasts \cup {ToastCreateFailed}
                /\ handlers' = [handlers EXCEPT ![i] = [h EXCEPT !.pc = "done"]]
                /\ connecting' = FALSE
                /\ UNCHANGED <<apiKey, testResult, showHaveKey, testing, fetched>>
  /\ UNCHANGED <<supabaseConfigured, clicks>>
  /\ UNCHANGED <<installerVars, homeVars, inviteVars, promptVars>>

\* lines 181-184 and 205-207: the finally of testConnection, then the one
\* of connectMagic when it is the caller
EndTest(i, h, result) ==
  /\ testResult' = result
  /\ testing' = FALSE
  /\ connecting' = IF h.kind = "connectMagic" THEN FALSE ELSE connecting
  /\ handlers' = [handlers EXCEPT ![i] = [h EXCEPT !.pc = "done", !.result = result]]

\* a failed initialize returns without the finally
SettleInitializeLeavesTesting(i) ==
  /\ handlers[i].pc = "initialize"
  /\ \E out \in {"ok", "failed", "threw"} :
       LET h == [handlers[i] EXCEPT !.initialize = out]
       IN  IF out = "ok"
           THEN /\ fetched' = Append(fetched, Request(i, "tools/list", Trim(h.apiKey)))
                /\ handlers' = [handlers EXCEPT ![i] =
                                  [h EXCEPT !.pc = "tools/list", !.list = "pending"]]
                /\ UNCHANGED <<testResult, testing, connecting>>
           ELSE /\ testResult' = [ok |-> FALSE, message |-> "Erro no initialize"]
                /\ handlers' = [handlers EXCEPT ![i] =
                                  [h EXCEPT !.pc = "done", !.result = testResult']]
                /\ UNCHANGED <<fetched, testing, connecting>>
  /\ UNCHANGED <<supabaseConfigured, apiKey, creatingKey, showHaveKey, toasts, clicks>>
  /\ UNCHANGED <<installerVars, homeVars, inviteVars, promptVars>>

\* lines 123-146: the initialize request settles
SettleInitialize(i) ==
  /\ handlers[i].pc = "initialize"
  /\ \E out \in {"ok", "failed", "threw"} :
       LET h == [handlers[i] EXCEPT !.initialize = out]
       IN  IF out = "ok"
           THEN /\ fetched' = Append(fetched, Request(i, "tools/list", Trim(h.apiKey)))
                /\ handlers' = [handlers EXCEPT ![i] =
                                  [h EXCEPT !.pc = "tools/list", !.list = "pending"]]
                /\ UNCHANGED <<testResult, testing, connecting>>
           ELSE /\ EndTest(i, h, [ok |-> FALSE,
                                  message |-> IF out = "failed" THEN "Erro no initialize"
                                              ELSE "Erro no teste"])
                /\ UNCHANGED fetched
  /\ UNCHANGED <<supabaseConfigured, apiKey, creatingKey, showHaveKey, toasts, clicks>>
  /\ UNCHANGED <<installerVars, homeVars, inviteVars, promptVars>>

\* lines 148-184: the tools/list request settles
SettleToolsList(i) ==
  /\ handlers[i].pc = "tools/list"
  /\ \E out \in {"ok", "failed", "threw"} :
       EndTest(i, [handlers[i] EXCEPT !.list = out],
               IF out = "ok" THEN [ok |-> TRUE, message |-> "Conectado. MCP respondeu corretamente."]
               ELSE [ok |-> FALSE,
                     message |-> IF out = "failed" THEN "Erro no tools/list" ELSE "Erro no teste"])
  /\ UNCHANGED <<supabaseConfigured, apiKey, creatingKey, showHaveKey, toasts, fetched, clicks>>
  /\ UNCHANGED <<installerVars, homeVars, inviteVars, promptVars>>

\* --------------------------------------------------------- AIPromptsManager

MaxOpens == 2
Opens == 1..MaxOpens
MaxSaves == 2

\* keys of PROMPT_CATALOG
PromptKeys == {"promptA", "promptB"}

\* a text and the prompt it is a text of
DefaultTemplate(key) == [of |-> key, text |-> "default"]
ActiveContent(key) == [of |-> key, text |-> "override"]
Typed(key) == [of |-> key, text |-> "typed"]
Cleared(key) == [of |-> key, text |-> ""]
EmptyDraft == [of |-> "none", text |-> ""]

NoLoad == [key |-> "null", pc |-> "idle"]

PromptsIdle ==
  /\ editorOpen = FALSE
  /\ editing = "null"
  /\ contentDraft = EmptyDraft
  /\ editorLoading = FALSE
  /\ saving = FALSE
  /\ loads = [i \in Opens |-> NoLoad]
  /\ opens = 0
  /\ savePc = "idle"
  /\ posted = <<>>

PromptFrame == UNCHANGED <<installerVars, homeVars, inviteVars, mcpVars>>

\* lines 451-461: openEditor up to its await; the list is reachable while
\* the modal is not shown
OpenEditor ==
  /\ ~editorOpen
  /\ opens < MaxOpens
  /\ \E item \in PromptKeys :
       /\ editing' = item
       /\ loads' = [loads EXCEPT ![opens + 1] = [key |-> item, pc |-> "pending"]]
  /\ opens' = opens + 1
  /\ editorOpen' = TRUE
  /\ editorLoading' = TRUE
  /\ UNCHANGED <<contentDraft, saving, savePc, posted>>
  /\ PromptFrame

\* lines 461-472: the GET of the i-th openEditor settles; `item` is the
\* argument of that call
SettleOpenEditor(i) ==
  /\ loads[i].pc = "pending"
  /\ \E out \in {"active", "none", "failed"} :
       contentDraft' = IF out = "active" THEN ActiveContent(loads[i].key)
                       ELSE DefaultTemplate(loads[i].key)
  /\ editorLoading' = FALSE
  /\ loads' = [loads EXCEPT ![i].pc = "done"]
  /\ UNCHANGED <<editorOpen, editing, saving, opens, savePc, posted>>
  /\ PromptFrame

\* lines 475-479, from the modal's onClose (line 796) or Cancelar (838-839)
CloseEditor ==
  /\ editorOpen
  /\ ~saving
  /\ editorOpen' = FALSE
  /\ editing' = "null"
  /\ contentDraft' = EmptyDraft
  /\ UNCHANGED <<editorLoading, saving, loads, opens, savePc, posted>>
  /\ PromptFrame

\* lines 820-831: the textarea, shown when the editor is not loading
EditDraft ==
  /\ editorOpen /\ editing # "null" /\ ~editorLoading
  /\ contentDraft' \in {Typed(editing), Cleared(editing)}
  /\ UNCHANGED <<editorOpen, editing, editorLoading, saving, loads, opens, savePc, posted>>
  /\ PromptFrame

\* lines 845-847 and 481-491
Save ==
  /\ editorOpen /\ editing # "null"
  /\ ~saving /\ ~editorLoading /\ contentDraft.text # ""
  /\ savePc = "idle"
  /\ Len(posted) < MaxSaves
  /\ saving' = TRUE
  /\ posted' = Append(posted, [key |-> editing, content |-> contentDraft])
  /\ savePc' = "POST"
  /\ UNCHANGED <<editorOpen, editing, contentDraft, editorLoading, loads, opens>>
  /\ PromptFrame

\* lines 492-501: the POST settles; on success fetchActive is awaited
SettleSave ==
  /\ savePc = "POST"
  /\ \E ok \in BOOLEAN :
       IF ok THEN savePc' = "fetchActive" /\ UNCHANGED saving
       ELSE savePc' = "idle" /\ saving' = FALSE
  /\ UNCHANGED <<editorOpen, editing, contentDraft, editorLoading, loads, opens, posted>>
  /\ PromptFrame

\* lines 423-441 and 495-501: fetchActive settles (it catches its own
\* failures), closeEditor runs, then the finally of save
SettleFetchActive ==
  /\ savePc = "fetchActive"
  /\ savePc' = "idle"
  /\ editorOpen' = FALSE
  /\ editing' = "null"
  /\ contentDraft' = EmptyDraft
  /\ saving' = FALSE
  /\ UNCHANGED <<editorLoading, loads, opens, posted>>
  /\ PromptFrame

AppIdle ==
  /\ HomeIdle
  /\ PromptsIdle
  /\ McpIdle
  /\ supabaseConfigured = TRUE
  /\ InvitesIdle
  /\ invSession = "null"
  /\ invProfile = NoProfile
  /\ invBody = NoInviteBody
  /\ invDbError = FALSE

\* ------------------------------------------------------------ specification

\* the all-supplied request, used where only the gates vary
PlainRequest(token) ==
  [installerToken |-> token, anonKey |-> KeyGiven, serviceRoleKey |-> KeyGiven,
   dbUrl |-> KeyGiven, accessToken |-> Undefined, projectRef |-> Undefined,
   urlRef |-> <<>>, deployEdgeFunctions |-> FALSE, healthCheck |-> NoHint]

\* a request that leaves every credential to the management API and deploys
ManagedRequest(token) ==
  [installerToken |-> token, anonKey |-> Undefined, serviceRoleKey |-> Undefined,
   dbUrl |-> Undefined, accessToken |-> KeyGiven, projectRef |-> KeyGiven,
   urlRef |-> <<>>, deployEdgeFunctions |-> TRUE, healthCheck |-> NoHint]

RunIdle ==
  /\ response = 0
  /\ skippedSteps = <<>>
  /\ events = <<>>
  /\ closeCalls = 0
  /\ writerClosed = FALSE
  /\ calls = <<>>
  /\ resolved = ResolvedFromRequest(PlainRequest(Undefined))
  /\ hasLocalEdgeFunctions = FALSE
  /\ functions = "undefined"
  /\ thrown = NoThrow

DelIdle ==
  /\ delReq = NoDelRequest
  /\ delResponse = 0
  /\ delCalls = <<>>

ListIdle ==
  /\ listReq = NoListRequest
  /\ listResponse = 0
  /\ listCalls = <<>>

\* no request of the concurrent runs has arrived
RaceIdle ==
  /\ runPos = [r \in Runs |-> 0]
  /\ runAwaiting = [r \in Runs |-> FALSE]
  /\ runOutcome = [r \in Runs |-> "none"]
  /\ target = [fn \in StepNames |-> 0]

\* One run-stream request arrives. Either the gates are open and the request
\* ranges over Requests, or the request is the plain one and the gates range
\* over all their values (the gates read nothing of the request but its
\* installerToken).
Init ==
  /\ pc = "request"
  /\ RunIdle
  /\ DelIdle
  /\ ListIdle
  /\ RaceIdle
  /\ AppIdle
  /\ \/ /\ originAllowed = TRUE
        /\ installerEnabled = Undefined
        /\ expectedToken = Undefined
        /\ payloadOk = TRUE
        /\ req \in {r \in Requests : r.installerToken = Undefined}
     \/ /\ originAllowed \in BOOLEAN
        /\ installerEnabled \in EnabledValues
        /\ expectedToken \in ExpectedTokens
        /\ payloadOk \in BOOLEAN
        /\ req \in {PlainRequest(t) : t \in InstallerTokens}

Next ==
  \/ Post
  \/ SettleList
  \/ CheckCredentials
  \/ BeginKeys
  \/ SettleKeys
  \/ BeginDb
  \/ SettleDb
  \/ BeginEnvs
  \/ SettleEnvs
  \/ BeginSignal
  \/ SettleSignal
  \/ BeginStation
  \/ SettleStation
  \/ BeginComms
  \/ SettleSecrets
  \/ SettleDeploy
  \/ BeginContact
  \/ SettleContact
  \/ BeginLanding
  \/ SettleLanding
  \/ Catch
  \/ Finally

Spec == Init /\ [][Next]_vars

\* One delete request arrives; no run-stream request is in progress.
InitDelete ==
  /\ pc = "request"
  /\ RunIdle
  /\ payloadOk = TRUE
  /\ req = PlainRequest(Undefined)
  /\ originAllowed \in BOOLEAN
  /\ installerEnabled \in EnabledValues
  /\ expectedToken \in ExpectedTokens
  /\ delReq \in DelBodies
  /\ delResponse = 0
  /\ delCalls = <<>>
  /\ ListIdle
  /\ RaceIdle
  /\ AppIdle

NextDelete ==
  \/ PostDelete
  \/ SettleDelete

SpecDelete == InitDelete /\ [][NextDelete]_vars

\* One run-stream request passes open gates; every awaited call eventually
\* settles (resolves or rejects; the readiness wait within its timeout) and
\* the client keeps reading, so the task is never suspended forever.
InitLive ==
  /\ pc = "request"
  /\ RunIdle
  /\ DelIdle
  /\ ListIdle
  /\ RaceIdle
  /\ AppIdle
  /\ originAllowed = TRUE
  /\ installerEnabled = Undefined
  /\ expectedToken = Undefined
  /\ payloadOk = TRUE
  /\ req \in {r \in Requests :
                /\ r.installerToken = Undefined
                /\ r.urlRef = <<>>
                /\ \A f \in {"anonKey", "serviceRoleKey", "dbUrl", "accessToken",
                              "projectRef"} : r[f] # Blank}

SpecLive == InitLive /\ [][Next]_vars /\ WF_vars(Next)

\* MaxRuns valid requests for the same project arrive at an open installer.
InitRace ==
  /\ pc = "request"
  /\ RunIdle
  /\ DelIdle
  /\ ListIdle
  /\ RaceIdle
  /\ AppIdle
  /\ originAllowed = TRUE
  /\ installerEnabled = Undefined
  /\ expectedToken = Undefined
  /\ payloadOk = TRUE
  /\ req = [PlainRequest(Undefined) EXCEPT !.projectRef = KeyGiven,
                                            !.accessToken = KeyGiven]

NextRace ==
  \E r \in Runs :
    \/ RunPost(r)
    \/ RunInvoke(r)
    \/ RunSettle(r)

SpecRace == InitRace /\ [][NextRace]_vars

\* the bodies sent to the delete and list routes where only the gates vary
GateDelBodies ==
  {NoDelRequest} \cup
  [installerToken : InstallerTokens, accessToken : {<<"t">>},
   projectRef : {<<"a">>}, confirmRef : {<<"a">>, <<"b">>}]

GateListBodies == {b \in ListBodies : b = NoListRequest \/ ListSchemaOk(b)}

\* One request arrives at each installer route, under every value of the
\* gates; the three handlers run in any interleaving.
InitGates ==
  /\ pc = "request"
  /\ RunIdle
  /\ originAllowed \in BOOLEAN
  /\ installerEnabled \in EnabledValues
  /\ expectedToken \in ExpectedTokens
  /\ payloadOk \in BOOLEAN
  /\ req \in {PlainRequest(t) : t \in InstallerTokens}
            \cup {ManagedRequest(t) : t \in InstallerTokens}
  /\ delReq \in GateDelBodies
  /\ delResponse = 0
  /\ delCalls = <<>>
  /\ listReq \in GateListBodies
  /\ listResponse = 0
  /\ listCalls = <<>>
  /\ RaceIdle
  /\ AppIdle

NextGates ==
  \/ Next
  \/ NextDelete
  \/ PostList
  \/ SettleOrganization
  \/ SettleProjects

SpecGates == InitGates /\ [][NextGates]_vars

\* A visitor opens the root page and a request reaches the invites route.
InitPages ==
  /\ pc = "request"
  /\ RunIdle
  /\ DelIdle
  /\ ListIdle
  /\ RaceIdle
  /\ payloadOk = TRUE
  /\ req = PlainRequest(Undefined)
  /\ expectedToken = Undefined
  /\ originAllowed \in BOOLEAN
  /\ installerEnabled \in EnabledValues
  /\ HomeIdle
  /\ InvitesIdle
  /\ invSession \in Users \cup {"null"}
  /\ invProfile \in ProfilesOf(IF invSession = "null" THEN "user1" ELSE invSession)
  /\ invBody \in InviteBodies
  /\ invDbError \in BOOLEAN
  /\ McpIdle
  /\ supabaseConfigured = TRUE
  /\ PromptsIdle

NextPages ==
  \/ Home
  \/ SettleRpc
  \/ RedirectDashboard
  \/ Get
  \/ PostInvite
  \/ SettleGetUser
  \/ SettleProfiles
  \/ SettleInvites

SpecPages == InitPages /\ [][NextPages]_vars

\* The settings page shows McpSection; every request eventually settles.
InitMcp ==
  /\ pc = "request"
  /\ RunIdle
  /\ DelIdle
  /\ ListIdle
  /\ RaceIdle
  /\ payloadOk = TRUE
  /\ req = PlainRequest(Undefined)
  /\ expectedToken = Undefined
  /\ originAllowed = TRUE
  /\ installerEnabled = EnvFalse
  /\ HomeIdle
  /\ InvitesIdle
  /\ invSession = "null"
  /\ invProfile = NoProfile
  /\ invBody = NoInviteBody
  /\ invDbError = FALSE
  /\ McpIdle
  /\ supabaseConfigured \in BOOLEAN
  /\ PromptsIdle

NextMcp ==
  \/ TypeKey
  \/ ToggleHaveKey
  \/ TestConnection
  \/ ConnectMagic
  \/ \E i \in Clicks : SettleCreateApiKey(i)
  \/ \E i \in Clicks : SettleInitialize(i)
  \/ \E i \in Clicks : SettleToolsList(i)

SpecMcp ==
  /\ InitMcp
  /\ [][NextMcp]_vars
  /\ \A i \in Clicks : /\ WF_vars(SettleCreateApiKey(i))
                        /\ WF_vars(SettleInitialize(i))
                        /\ WF_vars(SettleToolsList(i))

\* An admin works in AIPromptsManager.
InitPrompts ==
  /\ pc = "request"
  /\ RunIdle
  /\ DelIdle
  /\ ListIdle
  /\ RaceIdle
  /\ payloadOk = TRUE
  /\ req = PlainRequest(Undefined)
  /\ expectedToken = Undefined
  /\ originAllowed = TRUE
  /\ installerEnabled = EnvFalse
  /\ AppIdle

NextPrompts ==
  \/ OpenEditor
  \/ \E i \in Opens : SettleOpenEditor(i)
  \/ CloseEditor
  \/ EditDraft
  \/ Save
  \/ SettleSave
  \/ SettleFetchActive

SpecPrompts == InitPrompts /\ [][NextPrompts]_vars

\* ------------------------------------------------------------------ claims

RunEnded == pc \in {"done", "unhandled_rejection"}

EventsOfType(t) == {i \in 1..Len(events) : events[i].type = t}

ErrorCount == Cardinality(EventsOfType("error"))

PhasesEmitted == {events[i].phase : i \in EventsOfType("phase")}

AllPhases == {PhaseIds[i] : i \in 1..Len(PhaseIds)}

Rank(phase) == CHOOSE i \in 1..Len(PhaseIds) : PhaseIds[i] = phase

Called(fn) == \E i \in 1..Len(calls) : calls[i].fn = fn

\* the steps whose failure the specification calls a step failure (the
\* redeploy is best-effort), with a failed or rejected outcome
FailedSteps ==
  {i \in 1..Len(calls) : /\ calls[i].status \in {"failed", "threw"}
                         /\ calls[i].fn # "triggerProjectRedeploy"}

\* C1: on every exit path of the background task, close() on the writer is
\* invoked exactly once: never a second time, and once when the run has ended.
C1_ClosedExactlyOnce ==
  /\ closeCalls <= 1
  /\ RunEnded => closeCalls = 1

\* C2 (as claimed): a run that does not end in error has emitted phase events
\* for all seven phases, whatever the Skip Set.
C2_AllSevenPhasesEmitted ==
  (RunEnded /\ ErrorCount = 0) => PhasesEmitted = AllPhases

\* the phases whose events are inside the skip tests of the hint `h`
PhasesSkipped(h) ==
  (IF Hint(h, "skipWaitProject") THEN {"signal"} ELSE {}) \cup
  (IF Hint(h, "skipMigrations") THEN {"station"} ELSE {}) \cup
  (IF Hint(h, "skipBootstrap") THEN {"contact"} ELSE {})

\* C2 (amended): a run that does not end in error has emitted phase events
\* for coordinates, comms, landing and complete, and for signal, station and
\* contact exactly when wait_project, migrations and bootstrap, respectively,
\* are not in the Skip Set.
C2_PhasesEmittedUnlessSkipped ==
  (RunEnded /\ ErrorCount = 0) =>
    PhasesEmitted = AllPhases \ PhasesSkipped(req.healthCheck)

C2_Witness ==
  /\ pc = "done" /\ ErrorCount = 0
  /\ PhasesSkipped(req.healthCheck) = {"signal", "station", "contact"}
  /\ PhasesEmitted = {"coordinates", "comms", "landing", "complete"}
  /\ ~Called("waitForSupabaseProjectReady")
  /\ ~Called("runSchemaMigration")
  /\ ~Called("bootstrapInstance")

\* C3: phase events are written in the fixed order (no phase event for an
\* earlier phase after one for a later phase), the phase event for complete
\* is written at most once, and no phase event follows it.
C3_PhaseOrder ==
  /\ \A i, j \in EventsOfType("phase") :
       i < j => Rank(events[i].phase) <= Rank(events[j].phase)
  /\ Cardinality({i \in EventsOfType("phase") : events[i].phase = "complete"}) <= 1
  /\ \A i, j \in EventsOfType("phase") :
       events[i].phase = "complete" => j <= i

C3_Witness ==
  /\ pc = "done"
  /\ PhasesEmitted = AllPhases
  /\ \E i \in EventsOfType("phase") : events[i].phase = "complete"

\* C4: the progress values of successive events are non-decreasing and lie
\* in 0..100; a phase event carries 100 exactly when its phase is complete.
C4_ProgressMonotone ==
  /\ \A i \in EventsOfType("phase") :
       /\ events[i].progress \in 0..100
       /\ (events[i].phase = "complete") <=> (events[i].progress = 100)
  /\ \A i, j \in EventsOfType("phase") :
       i < j => events[i].progress <= events[j].progress

C4_Witness ==
  /\ pc = "done"
  /\ PhasesEmitted = AllPhases
  /\ Called("setSupabaseEdgeFunctionSecrets")
  /\ \E i \in EventsOfType("phase") : events[i].progress = 100

\* C5: when a step fails the run writes exactly one error event and ends:
\* nothing is written after an error event, there are never two error events
\* nor an error event with a complete event, and no component is invoked
\* after the failing step.
C5_OneErrorThenEnd ==
  /\ \A i \in EventsOfType("error") : i = Len(events)
  /\ EventsOfType("error") = {} \/ EventsOfType("complete") = {}
  /\ \A i \in FailedSteps : i = Len(calls)
  /\ (RunEnded /\ FailedSteps # {}) => ErrorCount = 1

\* C6: a non-success outcome of any pipeline step, the deployment of a
\* function bundle included, makes the run terminal: it ends with one error
\* event and never emits the complete phase or the complete event.
C6_FailureIsTerminal ==
  FailedSteps # {} =>
    /\ "complete" \notin PhasesEmitted
    /\ EventsOfType("complete") = {}
    /\ RunEnded => ErrorCount = 1

\* C7: the error event written for a caught exception carries the fixed
\* generic message, not the exception's own message.
C7_CaughtErrorIsGeneric ==
  (thrown # NoThrow /\ pc # "catch") =>
    /\ events # <<>>
    /\ events[Len(events)] = ErrorEvent(MsgGeneric)

\* the premise of C8: a key or the DB URL is missing after trimming, and the
\* access token is empty or no project reference can be resolved
C8_Premise ==
  /\ response = 200
  /\ \E f \in {"anonKey", "serviceRoleKey", "dbUrl"} : TrimOrEmpty(req[f]) = <<>>
  /\ \/ TrimOrEmpty(req.accessToken) = <<>>
     \/ TrimOrEmpty(req.projectRef) = <<>> /\ req.urlRef = <<>>

\* the error text naming the missing credential category
C8_Category ==
  IF TrimOrEmpty(req.accessToken) = <<>> THEN MsgNoAccessToken ELSE MsgNoProjectRef

\* no phase event, and no component invoked but the local listing
C8_NoSideEffect ==
  /\ PhasesEmitted = {}
  /\ \A i \in 1..Len(calls) : calls[i].fn = "listEdgeFunctionSlugs"

\* C8 (as claimed): under the premise the run is rejected with exactly one
\* error event naming the missing credential category, no phase event is
\* emitted and no external component is invoked.
C8_RejectedNamingCategory ==
  C8_Premise =>
    /\ C8_NoSideEffect
    /\ RunEnded => events = <<ErrorEvent(C8_Category)>>

\* C8 (amended): under the premise the run ends with exactly one error event,
\* no phase event and no external component invoked; the error event names
\* the missing credential category unless listEdgeFunctionSlugs, which is
\* awaited before the check when deployEdgeFunctions is true, threw: then it
\* is the error event of the outer catch.
C8_RejectedBeforeSideEffects ==
  C8_Premise =>
    /\ C8_NoSideEffect
    /\ RunEnded =>
         /\ Len(events) = 1
         /\ events[1].type = "error"
         /\ thrown = NoThrow => events[1].error = C8_Category

C8_Witness ==
  /\ C8_Premise
  /\ RunEnded
  /\ TrimOrEmpty(req.accessToken) # <<>>
  /\ events = <<ErrorEvent(MsgNoProjectRef)>>

\* C9: when healthCheck.skipBootstrap is true, bootstrapInstance is never
\* invoked.
C9_SkipBootstrapNeverInvoked ==
  Hint(req.healthCheck, "skipBootstrap") => ~Called("bootstrapInstance")

C9_Witness ==
  /\ Hint(req.healthCheck, "skipBootstrap")
  /\ ~Hint(req.healthCheck, "skipMigrations")
  /\ pc = "done"
  /\ "landing" \in PhasesEmitted
  /\ Called("runSchemaMigration")

\* the delete request carries both references
DelHasRefs ==
  /\ delReq # NoDelRequest
  /\ delReq.projectRef # Undefined
  /\ delReq.confirmRef # Undefined

\* the request was answered with a 4xx status, or not answered yet, and
\* deleteSupabaseProject was not invoked
DelRefused ==
  /\ delCalls = <<>>
  /\ delResponse # 0 => delResponse \in 400..499

\* C10 (as claimed): a delete request whose confirmRef differs from its
\* projectRef, compared as supplied, gets a 4xx response and causes no
\* deleteSupabaseProject call.
C10_ExactMismatchRefused ==
  (DelHasRefs /\ delReq.confirmRef # delReq.projectRef) => DelRefused

\* C10 (amended): a delete request whose confirmRef and projectRef differ
\* after both are trimmed gets a 4xx response and causes no
\* deleteSupabaseProject call.
C10_TrimmedMismatchRefused ==
  (DelHasRefs /\ Trim(delReq.confirmRef) # Trim(delReq.projectRef)) => DelRefused

C10_Witness ==
  /\ originAllowed /\ installerEnabled # EnvFalse /\ ~Truthy(expectedToken)
  /\ DelSchemaOk(delReq)
  /\ Trim(delReq.confirmRef) # Trim(delReq.projectRef)
  /\ delResponse = 400
  /\ delCalls = <<>>

\* the request supplies a usable anonKey, serviceRoleKey and dbUrl, opts out
\* of the function deploy, the Skip Set is empty and no step has failed
ScenarioA ==
  /\ response = 200
  /\ \A f \in {"anonKey", "serviceRoleKey", "dbUrl"} : Truthy(TrimOrEmpty(req[f]))
  /\ ~req.deployEdgeFunctions
  /\ skippedSteps = <<>>
  /\ FailedSteps = {}

\* C11: in scenario A neither resolver, nor setSupabaseEdgeFunctionSecrets,
\* nor deployAllSupabaseEdgeFunctions is ever invoked and no error event is
\* written; when the run has ended, phase events for all seven phases were
\* written in order and the last event is the complete event with ok = true.
C11_ScenarioA ==
  ScenarioA =>
    /\ \A fn \in {"resolveSupabaseApiKeys", "resolveSupabaseDbUrlViaCliLoginRole",
                   "setSupabaseEdgeFunctionSecrets", "deployAllSupabaseEdgeFunctions"} :
         ~Called(fn)
    /\ ErrorCount = 0
    /\ \A i, j \in EventsOfType("phase") :
         i < j => Rank(events[i].phase) <= Rank(events[j].phase)
    /\ RunEnded =>
         /\ pc = "done"
         /\ PhasesEmitted = AllPhases
         /\ events[Len(events)] = CompleteEvent

C11_Witness ==
  /\ ScenarioA
  /\ pc = "done"
  /\ Called("runSchemaMigration") /\ Called("bootstrapInstance")
  /\ events[Len(events)] = CompleteEvent

\* waitForSupabaseProjectReady returned a result that is not ok
ReadinessTimedOut ==
  \E i \in 1..Len(calls) :
    calls[i].fn = "waitForSupabaseProjectReady" /\ calls[i].status = "failed"

\* C12: once the readiness wait has returned a non-ok outcome the stream is
\* exactly the four coordinates events (5, 10, 15, 20), the signal start
\* event (25) and one error event saying the target did not respond in time;
\* the migration, the function deployer, the bootstrap and the redeploy are
\* never invoked.
C12_ScenarioB ==
  ReadinessTimedOut =>
    /\ events = <<PhaseEvent("coordinates", 5), PhaseEvent("coordinates", 10),
                  PhaseEvent("coordinates", 15), PhaseEvent("coordinates", 20),
                  PhaseEvent("signal", 25), ErrorEvent(MsgNotReady)>>
    /\ \A fn \in {"runSchemaMigration", "setSupabaseEdgeFunctionSecrets",
                   "deployAllSupabaseEdgeFunctions", "bootstrapInstance",
                   "triggerProjectRedeploy"} : ~Called(fn)

C12_Witness ==
  /\ ReadinessTimedOut
  /\ RunEnded
  /\ events[Len(events)] = ErrorEvent(MsgNotReady)

\* C13: a complete event carries ok = true, is the last event written and
\* immediately follows the phase event (complete, 100); a run that ended
\* without an error event ends with exactly these two events.
C13_CompleteIsLastAfterPhase ==
  /\ \A i \in EventsOfType("complete") :
       /\ events[i].ok
       /\ i = Len(events)
       /\ i > 1 /\ events[i - 1] = PhaseEvent("complete", 100)
  /\ (RunEnded /\ ErrorCount = 0) =>
       /\ Len(events) >= 2
       /\ events[Len(events)] = CompleteEvent
       /\ events[Len(events) - 1] = PhaseEvent("complete", 100)

C13_Witness ==
  /\ pc = "done" /\ ErrorCount = 0 /\ FailedSteps = {}
  /\ Len(events) >= 2
  /\ events[Len(events)] = CompleteEvent
  /\ events[Len(events) - 1] = PhaseEvent("complete", 100)

\* the outcome of the triggerProjectRedeploy call, once it settled badly
RedeployFailed ==
  \E i \in 1..Len(calls) :
    calls[i].fn = "triggerProjectRedeploy" /\ calls[i].status \in {"failed", "threw"}

\* C20: when triggerProjectRedeploy reported failure or threw, the events
\* written after landing 92 are landing 98, phase complete 100 and complete
\* ok = true, the stream holds no error event, and the catch is never entered.
C20_RedeployFailureSwallowed ==
  RedeployFailed =>
    /\ Len(events) >= 4
    /\ SubSeq(events, Len(events) - 3, Len(events)) =
         <<PhaseEvent("landing", 92), PhaseEvent("landing", 98),
           PhaseEvent("complete", 100), CompleteEvent>>
    /\ ErrorCount = 0
    /\ thrown = NoThrow
    /\ pc \in {"finally", "done"}

C20_Witness ==
  /\ \E i \in 1..Len(calls) :
       calls[i].fn = "triggerProjectRedeploy" /\ calls[i].status = "threw"
  /\ pc = "done"
  /\ events[Len(events)] = CompleteEvent

\* C14: in every state where the detached task has invoked a step or written
\* an event, and so in every state where a step is still in flight, the
\* handler has already returned the streaming response.
C14_ReturnedBeforePipeline ==
  /\ (calls # <<>> \/ events # <<>>) => response = 200
  /\ (\E i \in 1..Len(calls) : calls[i].status = "pending") => response = 200
  /\ pc \notin {"request", "not_started"} => response = 200

C14_Witness ==
  /\ response = 200
  /\ calls # <<>>
  /\ calls[Len(calls)] = [fn |-> "runSchemaMigration", status |-> "pending"]
  /\ ~RunEnded

\* the call of `fn` that settled with one of `statuses`, if there is one
SettledAs(fn, statuses) ==
  \E i \in 1..Len(calls) : calls[i].fn = fn /\ calls[i].status \in statuses

\* C18: deployAllSupabaseEdgeFunctions is invoked only after a call of
\* setSupabaseEdgeFunctionSecrets that returned ok; when the secrets call
\* fails (returns not-ok or throws) no bundle is deployed, no later step is
\* invoked, and the run ends with exactly one error event as its last event.
C18_SecretsBeforeDeploy ==
  /\ \A i \in 1..Len(calls) :
       calls[i].fn = "deployAllSupabaseEdgeFunctions" =>
         \E j \in 1..(i - 1) : calls[j] = [fn |-> "setSupabaseEdgeFunctionSecrets",
                                          status |-> "ok"]
  /\ SettledAs("setSupabaseEdgeFunctionSecrets", {"failed", "threw"}) =>
       /\ \A fn \in {"deployAllSupabaseEdgeFunctions", "bootstrapInstance",
                      "triggerProjectRedeploy"} : ~Called(fn)
       /\ EventsOfType("complete") = {}
       /\ RunEnded => /\ ErrorCount = 1
                      /\ events[Len(events)].type = "error"
  /\ SettledAs("setSupabaseEdgeFunctionSecrets", {"failed"}) =>
       events[Len(events)] = ErrorEvent(MsgSecretsFailed)

C18_Witness ==
  /\ SettledAs("setSupabaseEdgeFunctionSecrets", {"failed"})
  /\ RunEnded
  /\ ErrorCount = 1
  /\ ~Called("deployAllSupabaseEdgeFunctions")

\* the caller opted out of the function deploy, or listEdgeFunctionSlugs
\* returned no local bundle
DeployerIsNoOp ==
  /\ response = 200
  /\ \/ ~req.deployEdgeFunctions
     \/ SettledAs("listEdgeFunctionSlugs", {"ok"}) /\ ~hasLocalEdgeFunctions

\* C19: when the deployer is a no-op neither the secrets call nor the deploy
\* call is made and no error event about the communicators is written; the
\* comms event 60 is immediately followed by the comms event 75, after which
\* the run is in the contact phase, and a run with no failing step ends with
\* the landing and complete events.
C19_NoOpDeployerAdvances ==
  DeployerIsNoOp =>
    /\ ~Called("setSupabaseEdgeFunctionSecrets")
    /\ ~Called("deployAllSupabaseEdgeFunctions")
    /\ \A i \in EventsOfType("error") : events[i] # ErrorEvent(MsgSecretsFailed)
    /\ \A i \in 1..Len(events) :
         events[i] = PhaseEvent("comms", 60) =>
           i < Len(events) /\ events[i + 1] = PhaseEvent("comms", 75)
    /\ pc = "comms" => ErrorCount = 0
    /\ (RunEnded /\ FailedSteps = {} /\ "comms" \in PhasesEmitted) =>
         /\ "landing" \in PhasesEmitted
         /\ events[Len(events)] = CompleteEvent

C19_Witness ==
  /\ req.deployEdgeFunctions
  /\ SettledAs("listEdgeFunctionSlugs", {"ok"}) /\ ~hasLocalEdgeFunctions
  /\ pc = "done"
  /\ \E i \in 1..(Len(events) - 1) :
       events[i] = PhaseEvent("comms", 60) /\ events[i + 1] = PhaseEvent("comms", 75)
  /\ events[Len(events)] = CompleteEvent

\* the handler answered a request whose body is malformed
MalformedAnswered == ~payloadOk /\ pc # "request"

NoRunSideEffect ==
  /\ pc = "not_started"
  /\ events = <<>> /\ calls = <<>>
  /\ closeCalls = 0 /\ ~writerClosed
  /\ skippedSteps = <<>>

\* C16 (as claimed): every malformed request is answered 400, with no
\* event, no task and no external call.
C16_MalformedGets400 ==
  MalformedAnswered => response = 400 /\ NoRunSideEffect

\* C16 (amended): a malformed request is answered 400 when its origin is
\* allowed and the installer is not disabled, and 403 otherwise (the origin
\* and enable gates come first, the token gate after the schema); in every
\* case no event is written, no task is started and nothing is invoked.
C16_MalformedRejectedAfterGates ==
  MalformedAnswered =>
    /\ response = (IF originAllowed /\ installerEnabled # EnvFalse THEN 400 ELSE 403)
    /\ NoRunSideEffect

C16_Witness ==
  /\ MalformedAnswered
  /\ response = 400
  /\ Truthy(expectedToken) /\ req.installerToken # expectedToken

FullHint ==
  [skipWaitProject |-> TRUE, skipWaitStorage |-> TRUE,
   skipMigrations |-> TRUE, skipBootstrap |-> TRUE]

\* C17 (as claimed): the hint can skip each of the four steps, so under the
\* hint with every flag set none of the readiness wait, the migration, the
\* function-deploy secrets and the bootstrap is invoked.
C17_FullHintSkipsAllFour ==
  req.healthCheck = FullHint =>
    \A fn \in {"waitForSupabaseProjectReady", "runSchemaMigration",
                "setSupabaseEdgeFunctionSecrets", "bootstrapInstance"} : ~Called(fn)

\* C17 (amended): the readiness wait, the migration and the bootstrap are
\* not invoked when skipWaitProject, skipMigrations and skipBootstrap,
\* respectively, are set, and the migration and the bootstrap are invoked
\* when a run gets past their phase without the flag; the secrets step is
\* invoked exactly when deployEdgeFunctions is true and local bundles exist,
\* whatever the hint.
C17_ThreeStepsSkippable ==
  /\ Hint(req.healthCheck, "skipWaitProject") => ~Called("waitForSupabaseProjectReady")
  /\ Hint(req.healthCheck, "skipMigrations") => ~Called("runSchemaMigration")
  /\ Hint(req.healthCheck, "skipBootstrap") => ~Called("bootstrapInstance")
  /\ "comms" \in PhasesEmitted =>
       /\ ~Hint(req.healthCheck, "skipMigrations") => Called("runSchemaMigration")
       /\ Called("setSupabaseEdgeFunctionSecrets")
            <=> (req.deployEdgeFunctions /\ hasLocalEdgeFunctions)
  /\ "landing" \in PhasesEmitted =>
       (~Hint(req.healthCheck, "skipBootstrap") => Called("bootstrapInstance"))

C17_Witness ==
  /\ req.healthCheck = FullHint
  /\ pc = "done"
  /\ Called("setSupabaseEdgeFunctionSecrets")
  /\ ~Called("waitForSupabaseProjectReady")
  /\ ~Called("runSchemaMigration")
  /\ ~Called("bootstrapInstance")

\* INSTALLER_ENABLED is the string false
FlagBlocks == installerEnabled = EnvFalse

\* INSTALLER_TOKEN is set (non-empty) and differs from the parsed body's
\* installerToken
TokenBlocks(parsed, body) ==
  parsed /\ Truthy(expectedToken) /\ body.installerToken # expectedToken

RunBlocked == FlagBlocks \/ TokenBlocks(payloadOk, req)
DelBlocked == FlagBlocks \/ TokenBlocks(DelSchemaOk(delReq), delReq)
ListBlocked == FlagBlocks \/ TokenBlocks(ListSchemaOk(listReq), listReq)

KeysPopulated == Truthy(resolved.anonKey) /\ Truthy(resolved.serviceRoleKey)

\* the key-resolution sub-step is over: the event that follows it was written
KeysStepOver == \E i \in 1..Len(events) : events[i] = PhaseEvent("coordinates", 10)

\* C21: the keys are fetched exactly when one of them is missing from the
\* request, and then both resolved keys are the fetched ones; once the
\* key-resolution sub-step is over both resolved keys are populated, so the
\* env upsert, the function secrets and the bootstrap are never invoked with
\* one key populated and the other missing; a key resolution that did not
\* succeed ends the run with one error event.
C21_KeysBothOrNothing ==
  /\ Called("resolveSupabaseApiKeys") => NeedsKeys
  /\ KeysStepOver =>
       /\ KeysPopulated
       /\ NeedsKeys <=> SettledAs("resolveSupabaseApiKeys", {"ok"})
       /\ NeedsKeys => /\ resolved.anonKey = FetchedAnonKey
                       /\ resolved.serviceRoleKey = FetchedSecretKey
  /\ \A fn \in {"upsertProjectEnvs", "setSupabaseEdgeFunctionSecrets", "bootstrapInstance"} :
       Called(fn) => KeysStepOver /\ KeysPopulated
  /\ \A i \in 1..Len(calls) :
       calls[i].fn = "upsertProjectEnvs" =>
         Truthy(calls[i].envs[2].value) /\ Truthy(calls[i].envs[3].value)
  /\ SettledAs("resolveSupabaseApiKeys", {"failed", "threw"}) =>
       /\ ~KeysStepOver
       /\ Len(calls) <= 2
       /\ RunEnded => ErrorCount = 1

C21_Witness ==
  /\ Truthy(TrimOrEmpty(req.anonKey)) /\ ~Truthy(TrimOrEmpty(req.serviceRoleKey))
  /\ resolved.anonKey = FetchedAnonKey /\ resolved.serviceRoleKey = FetchedSecretKey
  /\ Called("bootstrapInstance")

\* the upsertProjectEnvs call that returned, with the entries it was given
EnvsUpserted(entries) ==
  \E i \in 1..Len(calls) :
    /\ calls[i].fn = "upsertProjectEnvs" /\ calls[i].status = "ok"
    /\ calls[i].envs = entries

\* C22: when the complete event has been written, upsertProjectEnvs has
\* returned from a call that set, for all requested targets, the Supabase
\* URL, both resolved keys and INSTALLER_ENABLED = 'false'.
C22_InstallerDisabledOnCompletion ==
  (\E i \in 1..Len(events) : events[i] = CompleteEvent) =>
    /\ EnvsUpserted(
         <<[key |-> "NEXT_PUBLIC_SUPABASE_URL", value |-> SupabaseUrl, targets |-> EnvTargets],
           [key |-> "NEXT_PUBLIC_SUPABASE_ANON_KEY", value |-> resolved.anonKey,
            targets |-> EnvTargets],
           [key |-> "SUPABASE_SERVICE_ROLE_KEY", value |-> resolved.serviceRoleKey,
            targets |-> EnvTargets],
           [key |-> "INSTALLER_ENABLED", value |-> EnvFalse, targets |-> EnvTargets]>>)

C22_Witness ==
  /\ pc = "done"
  /\ events[Len(events)] = CompleteEvent
  /\ NeedsKeys
  /\ \E i \in 1..Len(calls) :
       /\ calls[i].fn = "upsertProjectEnvs" /\ calls[i].status = "ok"
       /\ calls[i].envs[4] = [key |-> "INSTALLER_ENABLED", value |-> EnvFalse,
                              targets |-> EnvTargets]

\* the last event written is an error or a complete event
TerminalEventWritten ==
  /\ events # <<>>
  /\ events[Len(events)].type \in {"error", "complete"}

\* C23: every run whose streaming response was returned eventually has
\* written a terminal event (error or complete) as its last event, has its
\* stream closed, and has ended.
C23_StreamEventuallyClosed ==
  (response = 200) ~> (TerminalEventWritten /\ writerClosed /\ RunEnded)

C23_Witness ==
  /\ response = 200
  /\ TerminalEventWritten /\ writerClosed /\ pc = "done"
  /\ SettledAs("waitForSupabaseProjectReady", {"ok"})

\* the runs that have invoked step number i
Invoked(i) ==
  {r \in Runs : runPos[r] > i
                  \/ (runPos[r] = i /\ (runAwaiting[r] \/ runOutcome[r] = "error"))}

\* C24: nothing serialises or rejects a concurrent run: whatever the other
\* runs are doing, a request that has not been handled can be admitted and
\* a run between two steps can invoke its next step; every invocation
\* reaches the target project, which has received each step once per run
\* that invoked it.
C24_NoCrossRunLocking ==
  \A r \in Runs :
    /\ runPos[r] = 0 => ENABLED RunPost(r)
    /\ (runPos[r] \in 1..Len(RunSteps) /\ ~runAwaiting[r] /\ runOutcome[r] = "none")
         => ENABLED RunInvoke(r)
    /\ \A i \in 1..Len(RunSteps) : target[RunSteps[i]] = Cardinality(Invoked(i))

\* all runs have the migration behind them and the bootstrap in flight
C24_Witness ==
  /\ \A r \in Runs : /\ runPos[r] \in 1..Len(RunSteps)
                      /\ RunSteps[runPos[r]] = "bootstrapInstance"
                      /\ runAwaiting[r]
  /\ target["runSchemaMigration"] = MaxRuns
  /\ target["bootstrapInstance"] = MaxRuns
  /\ MaxRuns >= 2

PendingCalls == {i \in 1..Len(calls) : calls[i].status = "pending"}

\* C25: at most one call of a run is in flight, and it is the call invoked
\* last: every earlier call has settled before the next one is started.
C25_StepsSequential ==
  /\ Cardinality(PendingCalls) <= 1
  /\ \A i \in PendingCalls : i = Len(calls)

C25_Witness ==
  /\ Len(calls) >= 5
  /\ calls[Len(calls)] = [fn |-> "bootstrapInstance", status |-> "pending"]
  /\ \A i \in 1..(Len(calls) - 1) : calls[i].status = "ok"

\* the external components in the order of the pipeline
ExternalOrder ==
  <<"resolveSupabaseApiKeys", "resolveSupabaseDbUrlViaCliLoginRole", "upsertProjectEnvs",
    "waitForSupabaseProjectReady", "runSchemaMigration", "setSupabaseEdgeFunctionSecrets",
    "deployAllSupabaseEdgeFunctions", "bootstrapInstance", "triggerProjectRedeploy">>

ExternalSteps == {ExternalOrder[i] : i \in 1..Len(ExternalOrder)}

StepRank(fn) == CHOOSE i \in 1..Len(ExternalOrder) : ExternalOrder[i] = fn

\* the phase during which a component is called
StepPhase(fn) ==
  CASE fn \in {"resolveSupabaseApiKeys", "resolveSupabaseDbUrlViaCliLoginRole",
               "upsertProjectEnvs"} -> "coordinates"
    [] fn = "waitForSupabaseProjectReady" -> "signal"
    [] fn = "runSchemaMigration" -> "station"
    [] fn \in {"setSupabaseEdgeFunctionSecrets", "deployAllSupabaseEdgeFunctions"} -> "comms"
    [] fn = "bootstrapInstance" -> "contact"
    [] fn = "triggerProjectRedeploy" -> "landing"

ExternalCalls == {i \in 1..Len(calls) : calls[i].fn \in ExternalSteps}

\* C26: the external components are invoked in the one fixed order, each at
\* most once, and whenever one has been invoked a phase event of its phase
\* has been written.
C26_FixedStepOrder ==
  /\ \A i, j \in ExternalCalls :
       i < j => StepRank(calls[i].fn) < StepRank(calls[j].fn)
  /\ \A i \in ExternalCalls : StepPhase(calls[i].fn) \in PhasesEmitted

C26_Witness ==
  /\ {calls[i].fn : i \in ExternalCalls} = ExternalSteps
  /\ pc = "done"

PhaseEventCount(phase) ==
  Cardinality({i \in EventsOfType("phase") : events[i].phase = phase})

\* C27 (as claimed): each phase has at most one event of type phase; the
\* updates of the sub-steps are not phase events.
C27_OnePhaseEventPerPhase ==
  \A phase \in AllPhases : PhaseEventCount(phase) <= 1

\* the progress value of the first phase event of each phase
PhaseStart ==
  [coordinates |-> 5, signal |-> 25, station |-> 40, comms |-> 60,
   contact |-> 80, landing |-> 92, complete |-> 100]

\* the number of phase events a phase can have
PhaseEventLimit ==
  [coordinates |-> 4, signal |-> 2, station |-> 2, comms |-> 3,
   contact |-> 2, landing |-> 2, complete |-> 1]

\* C27 (amended): no event of type progress is ever written: every update
\* is an event of type phase. The first phase event of a phase carries the
\* phase's starting progress, a phase has at most 4 (coordinates), 3 (comms),
\* 2 (signal, station, contact, landing) or 1 (complete) phase events, and a
\* run that ends without error has written all four coordinates events.
C27_EveryUpdateIsPhaseEvent ==
  /\ \A i \in 1..Len(events) : events[i].type \in {"phase", "error", "complete"}
  /\ \A phase \in AllPhases : PhaseEventCount(phase) <= PhaseEventLimit[phase]
  /\ \A i \in EventsOfType("phase") :
       (\A j \in EventsOfType("phase") : j < i => events[j].phase # events[i].phase)
         => events[i].progress = PhaseStart[events[i].phase]
  /\ (RunEnded /\ ErrorCount = 0) =>
       /\ PhaseEventCount("coordinates") = 4
       /\ PhaseEventCount("landing") = 2

C27_Witness ==
  /\ pc = "done" /\ ErrorCount = 0
  /\ SettledAs("resolveSupabaseApiKeys", {"ok"})
  /\ SettledAs("resolveSupabaseDbUrlViaCliLoginRole", {"ok"})
  /\ PhaseEventCount("coordinates") = 4
  /\ PhaseEventCount("comms") = 3

\* the rejection of the credential check, before any phase
CredentialError ==
  events \in {<<ErrorEvent(MsgNoAccessToken)>>, <<ErrorEvent(MsgNoProjectRef)>>}

\* C28: with wait_project in the Skip Set waitForSupabaseProjectReady is
\* never invoked, with migrations in it runSchemaMigration is never invoked;
\* such a run has an error event only when a step failed or the credential
\* check rejected, and when it ends without error every later step that is
\* due (migration unless skipped, function secrets when there are bundles to
\* deploy, bootstrap unless skipped, redeploy) was invoked and the run ended
\* with the complete event.
C28_SkipBypassesOnlyItsStep ==
  /\ Includes(skippedSteps, "wait_project") => ~Called("waitForSupabaseProjectReady")
  /\ Includes(skippedSteps, "migrations") => ~Called("runSchemaMigration")
  /\ (Includes(skippedSteps, "wait_project") \/ Includes(skippedSteps, "migrations")) =>
       /\ ErrorCount > 0 => (FailedSteps # {} \/ CredentialError)
       /\ (RunEnded /\ ErrorCount = 0) =>
            /\ ~Includes(skippedSteps, "migrations") => Called("runSchemaMigration")
            /\ (req.deployEdgeFunctions /\ hasLocalEdgeFunctions)
                 => Called("setSupabaseEdgeFunctionSecrets")
            /\ "comms" \in PhasesEmitted
            /\ ~Includes(skippedSteps, "bootstrap") => Called("bootstrapInstance")
            /\ Called("triggerProjectRedeploy")
            /\ events[Len(events)] = CompleteEvent

C28_Witness ==
  /\ Includes(skippedSteps, "wait_project") /\ Includes(skippedSteps, "migrations")
  /\ ~Includes(skippedSteps, "bootstrap")
  /\ pc = "done" /\ ErrorCount = 0
  /\ Called("setSupabaseEdgeFunctionSecrets") /\ Called("bootstrapInstance")

SkipNames == {"wait_project", "wait_storage", "migrations", "bootstrap"}

\* the hint flag a name of the Skip Set stands for
FlagOf(name) ==
  CASE name = "wait_project" -> "skipWaitProject"
    [] name = "wait_storage" -> "skipWaitStorage"
    [] name = "migrations" -> "skipMigrations"
    [] name = "bootstrap" -> "skipBootstrap"

SkipSetWellFormed ==
  /\ \A i \in 1..Len(skippedSteps) : skippedSteps[i] \in SkipNames
  /\ \A i, j \in 1..Len(skippedSteps) : skippedSteps[i] = skippedSteps[j] => i = j
  /\ response = 200 =>
       \A name \in SkipNames :
         Includes(skippedSteps, name) <=> Hint(req.healthCheck, FlagOf(name))
  /\ (response = 200 /\ req.healthCheck = NoHint) => skippedSteps = <<>>
  /\ (calls # <<>> \/ events # <<>>) => response = 200

\* C29: the Skip Set holds, without repetition, exactly the names among
\* wait_project, wait_storage, migrations and bootstrap whose hint flag is
\* true (none when no hint is given); it has this value from the moment the
\* response is returned, before the task invokes or writes anything, and no
\* step of the run changes it.
C29_SkipSetComputedOnce ==
  /\ []SkipSetWellFormed
  /\ [][response = 200 => skippedSteps' = skippedSteps]_vars

C29_Witness ==
  /\ skippedSteps = <<"wait_project", "wait_storage", "migrations", "bootstrap">>
  /\ pc = "done"

\* the run has passed the test at the head of the signal phase
SignalDecided ==
  /\ \E i \in 1..Len(events) : events[i] = PhaseEvent("coordinates", 20)
  /\ pc # "signal"

CredentialsResolved == Truthy(resolved.accessToken) /\ Truthy(resolved.projectRef)

\* C30: waitForSupabaseProjectReady has been invoked exactly when the run
\* has reached the signal phase with wait_project not skipped and both the
\* access token and the project reference resolved; a run that reaches the
\* signal phase unskipped with a credential missing needed no management API
\* (keys and DB URL supplied, nothing to deploy), has written the signal
\* events 25 and 35 one after the other, and goes on to the migration.
C30_ReadinessPollerInvokedIff ==
  /\ Called("waitForSupabaseProjectReady") <=>
       /\ SignalDecided
       /\ ~Includes(skippedSteps, "wait_project")
       /\ CredentialsResolved
  /\ (SignalDecided /\ ~Includes(skippedSteps, "wait_project") /\ ~CredentialsResolved) =>
       /\ ~NeedsKeys /\ ~NeedsDb
       /\ ~(req.deployEdgeFunctions /\ hasLocalEdgeFunctions)
       /\ \E i \in 1..(Len(events) - 1) :
            events[i] = PhaseEvent("signal", 25) /\ events[i + 1] = PhaseEvent("signal", 35)
       /\ (pc # "station" /\ ~Includes(skippedSteps, "migrations"))
            => Called("runSchemaMigration")

C30_Witness ==
  /\ SignalDecided
  /\ ~Includes(skippedSteps, "wait_project")
  /\ ~CredentialsResolved
  /\ Called("runSchemaMigration")
  /\ pc = "done"

\* upsertProjectEnvs returned from a call that carried INSTALLER_ENABLED = 'false'
InstallerFlagWritten ==
  \E i \in 1..Len(calls) :
    /\ calls[i].fn = "upsertProjectEnvs" /\ calls[i].status = "ok"
    /\ \E k \in 1..Len(calls[i].envs) :
         calls[i].envs[k].key = "INSTALLER_ENABLED" /\ calls[i].envs[k].value = EnvFalse

\* a phase event of signal or a later phase was written
PastCoordinates == PhasesEmitted \ {"coordinates"} # {}

\* C32: the env upsert is invoked after the key and DB-URL resolutions have
\* succeeded and while only coordinates events were written; the readiness
\* wait, the migration, the function deployer, the bootstrap and the redeploy
\* are invoked only after it returned, so a run in signal or a later phase
\* (and every run ending in error there) has written INSTALLER_ENABLED =
\* 'false'; a run rejected by the credential check or by a failing key or
\* DB-URL resolution never invokes the upsert.
C32_FlagWrittenInCoordinates ==
  /\ \A i \in 1..Len(calls) :
       calls[i].fn = "upsertProjectEnvs" =>
         /\ \A j \in 1..(i - 1) :
              /\ calls[j].fn \in {"listEdgeFunctionSlugs", "resolveSupabaseApiKeys",
                                  "resolveSupabaseDbUrlViaCliLoginRole"}
              /\ calls[j].status = "ok"
         /\ NeedsKeys => SettledAs("resolveSupabaseApiKeys", {"ok"})
         /\ NeedsDb => SettledAs("resolveSupabaseDbUrlViaCliLoginRole", {"ok"})
         /\ calls[i].status = "pending" => ~PastCoordinates
  /\ \A fn \in {"waitForSupabaseProjectReady", "runSchemaMigration",
                 "setSupabaseEdgeFunctionSecrets", "deployAllSupabaseEdgeFunctions",
                 "bootstrapInstance", "triggerProjectRedeploy"} :
       Called(fn) => InstallerFlagWritten
  /\ PastCoordinates => InstallerFlagWritten
  /\ (CredentialError
       \/ SettledAs("resolveSupabaseApiKeys", {"failed", "threw"})
       \/ SettledAs("resolveSupabaseDbUrlViaCliLoginRole", {"failed", "threw"}))
      => ~Called("upsertProjectEnvs")

C32_Witness ==
  /\ RunEnded /\ ErrorCount = 1
  /\ SettledAs("waitForSupabaseProjectReady", {"failed"})
  /\ InstallerFlagWritten

CalledFunctions == ExternalSteps \cup {"listEdgeFunctionSlugs"}

\* the outcome each collaborator gave in this run ("ok" where it was not called)
ObservedStatus ==
  [fn \in CalledFunctions |->
     IF Called(fn) THEN calls[CHOOSE i \in 1..Len(calls) : calls[i].fn = fn].status
     ELSE "ok"]

\* the request that differs from r in healthCheck.skipWaitStorage only
\* (an absent hint has every flag false)
FlipWaitStorage(r) ==
  [r EXCEPT !.healthCheck =
     IF @ = NoHint
     THEN [skipWaitProject |-> FALSE, skipWaitStorage |-> TRUE,
           skipMigrations |-> FALSE, skipBootstrap |-> FALSE]
     ELSE [@ EXCEPT !.skipWaitStorage = ~@]]

\* C31: when a run has ended, the events it wrote and the calls it made, in
\* order, are those of the task run for its own request and also those of
\* the task run for the request with skipWaitStorage flipped, given the
\* same outcomes of the collaborators.
C31_WaitStorageHasNoEffect ==
  RunEnded =>
    LET own == RunTrace(req, hasLocalEdgeFunctions, ObservedStatus, thrown.kind)
        twin == RunTrace(FlipWaitStorage(req), hasLocalEdgeFunctions, ObservedStatus,
                         thrown.kind)
    IN  /\ events = own.events /\ calls = own.calls
        /\ events = twin.events /\ calls = twin.calls

C31_Witness ==
  /\ pc = "done"
  /\ Hint(req.healthCheck, "skipWaitStorage")
  /\ ~Hint(req.healthCheck, "skipMigrations")
  /\ Called("runSchemaMigration")
  /\ events = RunTrace(FlipWaitStorage(req), hasLocalEdgeFunctions, ObservedStatus,
                        thrown.kind).events

HomeAfterReset ==
  /\ homePc = "done"
  /\ installerEnabled = EnvFalse
  /\ homeRpc = [kind |-> "resolved", data |-> "false", error |-> FALSE]

\* C33: when INSTALLER_ENABLED is 'false' and the rpc gave data === false
\* with no error, Home is left by the redirect to /setup and not by the
\* redirect to /dashboard.
C33_ResetRedirectsToSetup == HomeAfterReset => homeRedirect = "/setup"

InviteDone == invPc = "done"

\* the answer the checks give, in their order
InviteAnswer ==
  IF invMethod = "POST" /\ ~originAllowed THEN 403
  ELSE IF invSession = "null" THEN 401
  ELSE IF invProfile.error \/ invProfile.organization_id = "null" THEN 404
  ELSE IF invProfile.role # "admin" THEN 403
  ELSE IF invMethod = "POST" /\ ~CreateInviteSchemaOk(invBody) THEN 400
  ELSE IF invDbError THEN 500
  ELSE IF invMethod = "POST" THEN 201 ELSE 200

InviteAllowed ==
  /\ invMethod = "POST" => originAllowed
  /\ invSession # "null"
  /\ ~invProfile.error
  /\ invProfile.organization_id # "null"
  /\ invProfile.role = "admin"
  /\ invMethod = "POST" => CreateInviteSchemaOk(invBody)

\* C37: a finished invites request is answered by the first failing check
\* in the order origin 403, user 401, profile 404, role 403, payload 400;
\* a statement reaches organization_invites only when every check passed,
\* and at most one; an insert carries the organization and the id of the
\* caller's profile whatever the payload holds; the statement of GET
\* selects the unused invites of the caller's organization.
C37_InvitesAdminOnlyTenantScoped ==
  /\ InviteDone => invResponse = InviteAnswer
  /\ Len(invCalls) <= 1
  /\ invCalls # <<>> => InviteAllowed
  /\ \A i \in 1..Len(invCalls) :
       /\ invCalls[i].organization_id = invProfile.organization_id
       /\ invCalls[i].organization_id \in Orgs
       /\ IF invMethod = "POST"
          THEN /\ invCalls[i].op = "insert"
               /\ invCalls[i].created_by = invSession
               /\ invBody.organization_id = "undefined"
               /\ invBody.created_by = "undefined"
          ELSE /\ invCalls[i].op = "select"
               /\ invCalls[i].used_at = "null"

C37_Witness ==
  /\ InviteDone
  /\ invMethod = "POST"
  /\ invResponse = 201
  /\ invCalls = <<[op |-> "insert", organization_id |-> "org2", role |-> "vendedor",
                   email |-> "ana@crm.io", expires_at |-> "null", created_by |-> "user1"]>>

Sent(i, method, token) ==
  \E k \in 1..Len(fetched) : fetched[k] = Request(i, method, token)

\* one click on Connect with an empty field made a key
OneClickCreated(i) ==
  /\ handlers[i].kind = "connectMagic"
  /\ Trim(handlers[i].apiKey) = <<>>
  /\ handlers[i].created = "token"

\* C34: once a click on Connect with an empty key field has received a
\* token from createApiKeyInline, the initialize request carrying that
\* token has been sent by the same click, and when the click is over the
\* test has given it a result.
C34_OneClickTestsNewToken ==
  \A i \in Clicks :
    OneClickCreated(i) =>
      /\ Sent(i, "initialize", NewToken)
      /\ handlers[i].pc = "done" => handlers[i].result # NullResult

TestedHandlers == {i \in Clicks : handlers[i].initialize # "none"}

FlagsReset == ~testing /\ ~creatingKey /\ ~connecting

\* tools/list follows an initialize answered ok, and ok needs both
TestOrder ==
  /\ \A i \in Clicks :
       /\ handlers[i].list # "none" => handlers[i].initialize = "ok"
       /\ handlers[i].initialize \in {"failed", "threw"} /\ handlers[i].pc = "done" =>
            /\ ~\E k \in 1..Len(fetched) : fetched[k].by = i /\ fetched[k].method = "tools/list"
            /\ ~ResultOk(handlers[i].result) /\ handlers[i].result # NullResult
       /\ ResultOk(handlers[i].result) =>
            handlers[i].initialize = "ok" /\ handlers[i].list = "ok"
       /\ \A k \in 1..Len(fetched) :
            fetched[k].by = i /\ fetched[k].method = "tools/list" =>
              \E j \in 1..(k - 1) : fetched[j].by = i /\ fetched[j].method = "initialize"
  /\ ResultOk(testResult) => \E i \in Clicks : handlers[i].result = testResult
  /\ (\A i \in Clicks : handlers[i].pc \in {"idle", "done"}) => FlagsReset

\* C35: tools/list is sent only after initialize was answered ok, a failed
\* initialize leaves a result that is not ok and no tools/list, a result
\* that is ok comes from two requests answered ok; and whenever one of
\* testing, creatingKey and connecting is set, all three are eventually
\* false again.
C35_TestOrderAndFlagsReset == []TestOrder /\ (~FlagsReset ~> FlagsReset)

C35_Witness ==
  \E i \in Clicks :
    /\ handlers[i].kind = "connectMagic"
    /\ handlers[i].initialize = "failed"
    /\ handlers[i].pc = "done"
    /\ FlagsReset

\* C36: whenever the editor is open and not loading, the draft is a text
\* of the prompt in `editing`, and every body posted by save holds a text
\* of the prompt whose key it is posted under.
C36_DraftBelongsToEditing ==
  /\ editorOpen /\ ~editorLoading => contentDraft.of = editing
  /\ \A k \in 1..Len(posted) : posted[k].content.of = posted[k].key
====
